---- MODULE Spec2Model ----
(***************************************************************************)
(* Model of the Prow job-history cache and failure aggregation of          *)
(* list_failed_prs.py: the on-disk cache (one JSON file per sanitised job  *)
(* name, validity decided by the file's mtime), the cache-or-fetch         *)
(* prologue shared by count_failed_jobs_in_window and                      *)
(* get_latest_failed_job, and the time-window filter (Spec, SpecWindow);   *)
(* the batches get_multiple_periodic_jobs_counts and                       *)
(* get_multi_release_counts (SpecBatch); and the two implementations of    *)
(* convert_artifacts_url_to_gcs_path in prow_crawler.py and                *)
(* generate_gsutil_commands.py (SpecConvert); the time-window loop over a  *)
(* list of failures (SpecFilter); the pull-request report                  *)
(* get_pr_report_data (SpecReport); the tool dispatchers of the two MCP    *)
(* servers (SpecMcp); and two processes saving one cache entry while a     *)
(* third loads it (SpecRace).                                              *)
(*                                                                         *)
(* Time is in seconds.  Python values are modelled as records:             *)
(*   None            -> [none |-> TRUE]                                    *)
(*   a value v       -> [none |-> FALSE, v |-> v]                          *)
(*   a call's result -> [exc |-> "none" or the exception's name, ...]      *)
(* sys.exit(1) raises SystemExit, which is a BaseException and therefore   *)
(* passes through every `except Exception` handler.                        *)
(* File operations on the cache directory are taken to succeed; unreadable *)
(* or undecodable file contents are modelled by the file's kind.           *)
(***************************************************************************)
EXTENDS Integers, Sequences, FiniteSets, TLC

VARIABLES
    now,      \* the wall clock, datetime.now(), in seconds
    files,    \* the cache directory: cache file name -> file
    last,     \* the last operation called, its arguments and what it returned
    tw,       \* is_within_time_window's argument and result (SpecWindow)
    mx,       \* the batch call in progress: its arguments, loop position,
              \* the calls made so far and what it returned (SpecBatch)
    gcs,      \* convert_artifacts_url_to_gcs_path's argument and the results
              \* of its two implementations (SpecConvert)
    rep,      \* get_pr_report_data's arguments, gh's answer and the report
              \* (SpecReport)
    mcp,      \* the last MCP tool call: server, request, what run.sh did and
              \* the dispatcher's answer (SpecMcp)
    wr        \* two processes saving and one loading the same cache file:
              \* their positions and the file's content (SpecRace)

vars == <<now, files, last, tw, mx, gcs, rep, mcp, wr>>

----------------------------------------------------------------------------
(* Bounds of the model *)

\* the clock stops advancing at MaxNow
MaxNow == 3660

(* Program constants *)
SECONDS_PER_HOUR == 3600
MAX_AGE_HOURS == 1
DEFAULT_HOURS_BACK == 12

\* the clock advances by 59 minutes, 1 hour or 61 minutes at a time
ClockSteps == {59 * 60, 60 * 60, 61 * 60}

----------------------------------------------------------------------------
(* Python's None and Optional *)

None == [none |-> TRUE]
Some(x) == [none |-> FALSE, v |-> x]

\* a call that returned x, and a call that raised e
Returned(x) == [exc |-> "none", v |-> x]
Raised(e) == [exc |-> e]

----------------------------------------------------------------------------
(* Job names and cache file names *)

\* job names are sequences of characters
JobNames == { <<"k">>, <<"j", ".", "1">>, <<"j", "_", "1">> }

\* the characters Python's \w matches, among those the model uses
WORD_CHARS == {"j", "k", "0", "1", "2", "4", "_"}

\* the fixed parts of a periodic job's full name, each kept as one run of
\* characters; all their characters are \w or -
PERIODIC_PREFIX == "periodic-ci-openshift-microshift-release-"
PERIODICS_INFIX == "-periodics-"

safe_char(c) ==
    IF c \in WORD_CHARS \cup {"-"} \cup {PERIODIC_PREFIX, PERIODICS_INFIX}
    THEN c
    ELSE "_"

\* re.sub(r'[^\w\-]', '_', job_name) + ".json"
get_cache_file_path(job_name) ==
    [i \in 1..Len(job_name) |-> safe_char(job_name[i])] \o <<".json">>

CacheFileNames == { get_cache_file_path(j) : j \in JobNames }

----------------------------------------------------------------------------
(* Build records of the dashboard *)

\* a Started value: kind is
\*   "absent"  the key is missing        "null"    JSON null
\*   "empty"   ""                        "unknown" the string "Unknown"
\*   "garbage" a string fromisoformat rejects
\*   "number"  a JSON number (no .replace attribute)
\*   "naive"   ISO-8601 without UTC offset, e.g. 2025-10-21T00:00:00
\*   "aware"   ISO-8601 with offset or Z, the instant t
Aware(t) == [kind |-> "aware", t |-> t]
Naive(t) == [kind |-> "naive", t |-> t]
NoTime(k) == [kind |-> k, t |-> 0]

Build(id, result, started, link, prs) ==
    [ID |-> id, Result |-> result, Started |-> started, Duration |-> "1h2m",
     SpyglassLink |-> link, pulls |-> prs]

\* dashboard build lists (reverse-chronological), times relative to now = 0
BuildsA ==
    << Build("106", "FAILURE", Aware(0), "/view/106", <<7>>),
       Build("105", "SUCCESS", Aware(-60), "/view/105", <<>>),
       Build("104", "FAILURE", NoTime("absent"), "/view/104", <<>>),
       Build("103", "ABORTED", Aware(-120), "/view/103", <<>>),
       Build("102", "FAILURE", Aware(3600 - 12 * 3600), "", <<>>),
       Build("101", "FAILURE", NoTime("garbage"), "/view/101", <<>>) >>
BuildsB ==
    << Build("202", "FAILURE", Aware(3600 - 12 * 3600), "/view/202", <<0, 9>>),
       Build("201", "FAILURE", Aware(-50000), "/view/201", <<>>) >>
\* a failure whose Started has no UTC offset
BuildsC ==
    << Build("302", "FAILURE", Aware(0), "", <<>>),
       Build("301", "FAILURE", Naive(-60), "/view/301", <<>>) >>

\* builds in the dashboard's order (build ID descending) of which the older
\* one waited longer for a machine and so started later
BuildsD ==
    << Build("402", "FAILURE", Aware(-120), "", <<>>),
       Build("401", "FAILURE", Aware(-60), "/view/401", <<>>) >>

CacheBuildLists == { <<>>, BuildsA, BuildsB, BuildsC, BuildsD }

MaxBuilds == Len(BuildsA)

----------------------------------------------------------------------------
(* The cache directory *)

\* kind: "entry" (what save_job_data_to_cache writes), "truncated" (not
\* JSON: json.load raises JSONDecodeError), "not_object" (valid JSON that is
\* no object, e.g. []: data.get raises AttributeError)
NoFile ==
    [exists |-> FALSE, mtime |-> 0, kind |-> "none", job_name |-> <<>>,
     cached_at |-> 0, builds |-> <<>>]

CorruptKinds == {"truncated", "not_object"}

\* mutant: the age limit taken in minutes (timedelta(minutes=max_age_hours))
is_cache_valid_minutes(cache_file, t) ==
    IF ~cache_file.exists
    THEN FALSE
    ELSE (t - cache_file.mtime) < MAX_AGE_HOURS * 60

\* mutant: an entry is still valid at exactly the age limit (`<=`)
is_cache_valid_inclusive(cache_file, t) ==
    IF ~cache_file.exists
    THEN FALSE
    ELSE (t - cache_file.mtime) <= MAX_AGE_HOURS * SECONDS_PER_HOUR

is_cache_valid(cache_file, t) ==
    IF ~cache_file.exists
    THEN FALSE
    ELSE (t - cache_file.mtime) < MAX_AGE_HOURS * SECONDS_PER_HOUR

\* mutant: an empty cached list is taken for no entry (`builds or None`)
load_cached_job_data_falsy(fs, job_name, t) ==
    LET cache_file == fs[get_cache_file_path(job_name)]
    IN  IF ~is_cache_valid(cache_file, t)
        THEN Returned(None)
        ELSE CASE cache_file.kind = "truncated" -> Returned(None)
               [] cache_file.kind = "not_object" -> Raised("AttributeError")
               [] cache_file.builds = <<>> -> Returned(None)
               [] OTHER -> Returned(Some(cache_file.builds))

load_cached_job_data(fs, job_name, t) ==
    LET cache_file == fs[get_cache_file_path(job_name)]
    IN  IF ~is_cache_valid(cache_file, t)
        THEN Returned(None)
        ELSE CASE cache_file.kind = "truncated" -> Returned(None)
               [] cache_file.kind = "not_object" -> Raised("AttributeError")
               [] OTHER -> Returned(Some(cache_file.builds))

\* mutant: the new builds are added to those of the existing entry
save_job_data_to_cache_merge(fs, job_name, builds_data, t) ==
    [fs EXCEPT ![get_cache_file_path(job_name)] =
        [exists |-> TRUE, mtime |-> t, kind |-> "entry", job_name |-> job_name,
         cached_at |-> t, builds |-> @.builds \o builds_data]]

\* mutant: an existing file is not overwritten (open(cache_file, 'x'))
save_job_data_to_cache_keep(fs, job_name, builds_data, t) ==
    IF fs[get_cache_file_path(job_name)].exists
    THEN fs
    ELSE [fs EXCEPT ![get_cache_file_path(job_name)] =
            [exists |-> TRUE, mtime |-> t, kind |-> "entry", job_name |-> job_name,
             cached_at |-> t, builds |-> builds_data]]

save_job_data_to_cache(fs, job_name, builds_data, t) ==
    [fs EXCEPT ![get_cache_file_path(job_name)] =
        [exists |-> TRUE, mtime |-> t, kind |-> "entry", job_name |-> job_name,
         cached_at |-> t, builds |-> builds_data]]

\* mutant: the file is found but not unlinked
clear_cache_for_job_no_unlink(fs, job_name) ==
    [fs |-> fs, ret |-> fs[get_cache_file_path(job_name)].exists]

\* returns the directory and the function's result
clear_cache_for_job(fs, job_name) ==
    LET p == get_cache_file_path(job_name)
    IN  IF fs[p].exists
        THEN [fs |-> [fs EXCEPT ![p] = NoFile], ret |-> TRUE]
        ELSE [fs |-> fs, ret |-> FALSE]

\* mutant: only the files that are still valid entries are removed
clear_all_cache_entries_only(fs) ==
    [fs |-> [p \in DOMAIN fs |-> IF fs[p].kind = "entry" THEN NoFile ELSE fs[p]],
     ret |-> Cardinality({p \in DOMAIN fs : fs[p].exists /\ fs[p].kind = "entry"})]

clear_all_cache(fs) ==
    [fs |-> [p \in DOMAIN fs |-> NoFile],
     ret |-> Cardinality({p \in DOMAIN fs : fs[p].exists})]

----------------------------------------------------------------------------
(* The dashboard and the artifact-detail (Spyglass) page *)

PROW_BASE_URL == "https://prow.ci.openshift.org"

\* a dashboard response: fetch is "ok" or "error" (a RequestException);
\* body is "no_match" (no `var allBuilds = ...;`), "bad_json" or "json"
Page(fetch, body, builds) == [fetch |-> fetch, body |-> body, builds |-> builds]

FailedPages ==
    { Page("error", "no_match", <<>>), Page("ok", "no_match", <<>>),
      Page("ok", "bad_json", <<>>) }

\* a Spyglass response: "error" (a RequestException), "no_link" (a page
\* without an Artifacts anchor) or "link" (a page with one)
SpyResponses == {"error", "no_link", "link"}

ARTIFACTS_HREF == "https://gcsweb-ci/gcs/test-platform-results/logs/job/1/"

fetch_job_history(page) ==
    IF page.fetch = "ok" THEN Returned(page) ELSE Raised("SystemExit")

\* mutant: a page without the assignment yields the empty build list
extract_builds_json_silent(html_content) ==
    CASE html_content.body = "no_match" -> Returned(<<>>)
      [] html_content.body = "bad_json" -> Raised("SystemExit")
      [] OTHER -> Returned(html_content.builds)

\* mutant: a literal that is not JSON yields the empty build list
extract_builds_json_lenient(html_content) ==
    CASE html_content.body = "no_match" -> Raised("SystemExit")
      [] html_content.body = "bad_json" -> Returned(<<>>)
      [] OTHER -> Returned(html_content.builds)

extract_builds_json(html_content) ==
    CASE html_content.body = "no_match" -> Raised("SystemExit")
      [] html_content.body = "bad_json" -> Raised("SystemExit")
      [] OTHER -> Returned(html_content.builds)

\* ProwJobCrawler.extract_builds_json of prow_crawler.py: `if not match:
\* sys.exit(1)`, and sys.exit(1) in the JSONDecodeError handler
crawler_extract_builds_json(html_content) ==
    IF html_content.body = "no_match"
    THEN Raised("SystemExit")
    ELSE IF html_content.body = "bad_json"
         THEN Raised("SystemExit")
         ELSE Returned(html_content.builds)

get_failed_jobs(builds) == SelectSeq(builds, LAMBDA b : b.Result = "FAILURE")

\* mutant: a failed request is answered with the page of an earlier request
fetch_spyglass_page_stale(spy) == IF spy = "error" THEN Some("link") ELSE Some(spy)

fetch_spyglass_page(spy) == IF spy = "error" THEN None ELSE Some(spy)

extract_artifacts_url(html_content) ==
    IF html_content = "link" THEN Some(ARTIFACTS_HREF) ELSE None

----------------------------------------------------------------------------
(* The time window *)

\* datetime.fromisoformat(s.replace('Z', '+00:00')), None on ValueError or
\* AttributeError; tz tells whether the datetime carries a UTC offset
parse_job_start_time(start_time_str) ==
    CASE start_time_str.kind = "aware" -> Some([tz |-> TRUE, t |-> start_time_str.t])
      [] start_time_str.kind = "naive" -> Some([tz |-> FALSE, t |-> start_time_str.t])
      [] OTHER -> None

\* mutant: the comparison with the cutoff is reversed
is_within_time_window_before(start_time_str, hours_back, t) ==
    IF start_time_str.kind \in {"absent", "null", "empty", "unknown"}
    THEN Returned(FALSE)
    ELSE LET start_time == parse_job_start_time(start_time_str)
         IN  IF start_time.none
             THEN Returned(FALSE)
             ELSE IF ~start_time.v.tz
                  THEN Raised("TypeError")
                  ELSE Returned(start_time.v.t <= t - hours_back * SECONDS_PER_HOUR)

\* t is datetime.now(timezone.utc); comparing a naive datetime with the
\* aware cutoff raises TypeError
is_within_time_window(start_time_str, hours_back, t) ==
    IF start_time_str.kind \in {"absent", "null", "empty", "unknown"}
    THEN Returned(FALSE)
    ELSE LET start_time == parse_job_start_time(start_time_str)
         IN  IF start_time.none
             THEN Returned(FALSE)
             ELSE IF ~start_time.v.tz
                  THEN Raised("TypeError")
                  ELSE Returned(start_time.v.t >= t - hours_back * SECONDS_PER_HOUR)

\* job.get('Started', 'Unknown')
StartedOf(job) ==
    IF job.Started.kind = "absent" THEN NoTime("unknown") ELSE job.Started

\* the loop `for job in failed_jobs: if is_within_time_window(...): append`;
\* clk[i] is the clock read for the i-th failed job
RECURSIVE filter_window(_, _, _, _)
filter_window(failed_jobs, hours_back, clk, i) ==
    IF i > Len(failed_jobs)
    THEN Returned(<<>>)
    ELSE LET w == is_within_time_window(StartedOf(failed_jobs[i]), hours_back, clk[i])
         IN  IF w.exc # "none"
             THEN w
             ELSE LET rest == filter_window(failed_jobs, hours_back, clk, i + 1)
                  IN  IF rest.exc # "none"
                      THEN rest
                      ELSE Returned((IF w.v THEN <<failed_jobs[i]>> ELSE <<>>) \o rest.v)

----------------------------------------------------------------------------
(* The cache-or-fetch prologue of count_failed_jobs_in_window and          *)
(* get_latest_failed_job                                                   *)

\* lines 282-286: the cache is read only when use_cache
cache_lookup(fs, job_name, use_cache, t) ==
    IF use_cache THEN load_cached_job_data(fs, job_name, t) ELSE Returned(None)

\* mutant: the cache is written whatever use_cache says
cache_store_always(fs, job_name, use_cache, builds, t) ==
    save_job_data_to_cache(fs, job_name, builds, t)

\* lines 298-300: the cache is written only when use_cache
cache_store(fs, job_name, use_cache, builds, t) ==
    IF use_cache THEN save_job_data_to_cache(fs, job_name, builds, t) ELSE fs

\* returns exc, the directory afterwards, the I/O events in order, the
\* builds obtained and whether they came from the cache
load_or_fetch_builds(fs, job_name, use_cache, page, t) ==
    LET cached == cache_lookup(fs, job_name, use_cache, t)
        ev0 == IF use_cache THEN <<"cache_read">> ELSE <<>>
    IN  IF cached.exc # "none"
        THEN [exc |-> cached.exc, fs |-> fs, events |-> ev0, builds |-> <<>>,
              hit |-> FALSE]
        ELSE IF ~cached.v.none
        THEN [exc |-> "none", fs |-> fs, events |-> ev0, builds |-> cached.v.v,
              hit |-> TRUE]
        ELSE LET html_content == fetch_job_history(page)
                 ev1 == ev0 \o <<"dashboard_fetch">>
             IN  IF html_content.exc # "none"
                 THEN [exc |-> html_content.exc, fs |-> fs, events |-> ev1,
                       builds |-> <<>>, hit |-> FALSE]
                 ELSE LET builds == extract_builds_json(html_content.v)
                          ev2 == ev1 \o <<"extract">>
                      IN  IF builds.exc # "none"
                          THEN [exc |-> builds.exc, fs |-> fs, events |-> ev2,
                                builds |-> <<>>, hit |-> FALSE]
                          ELSE [exc |-> "none",
                                fs |-> cache_store(fs, job_name, use_cache, builds.v, t),
                                events |-> IF use_cache THEN ev2 \o <<"cache_write">>
                                                        ELSE ev2,
                                builds |-> builds.v, hit |-> FALSE]

\* mutant: the related pull requests are not carried over
latest_failed_details_no_prs(latest_failed, spy) ==
    LET spyglass_link == latest_failed.SpyglassLink
        html_content == IF spyglass_link # "" THEN fetch_spyglass_page(spy) ELSE None
        found == IF html_content.none THEN None ELSE extract_artifacts_url(html_content.v)
    IN  [events |-> IF spyglass_link # "" THEN <<"spyglass_fetch">> ELSE <<>>,
         info |->
            [build_id |-> latest_failed.ID,
             started |-> StartedOf(latest_failed),
             duration |-> latest_failed.Duration,
             spyglass_url |-> IF spyglass_link # "" THEN <<PROW_BASE_URL, spyglass_link>>
                                                   ELSE <<>>,
             artifacts_url |-> IF found.none THEN "" ELSE found.v,
             pr_numbers |-> <<>>,
             result |-> latest_failed.Result]]

\* mutant: the Spyglass page is requested whether the build has a link or not
latest_failed_details_always_fetch(latest_failed, spy) ==
    LET spyglass_link == latest_failed.SpyglassLink
        html_content == fetch_spyglass_page(spy)
        found == IF html_content.none THEN None ELSE extract_artifacts_url(html_content.v)
    IN  [events |-> <<"spyglass_fetch">>,
         info |->
            [build_id |-> latest_failed.ID,
             started |-> StartedOf(latest_failed),
             duration |-> latest_failed.Duration,
             spyglass_url |-> IF spyglass_link # "" THEN <<PROW_BASE_URL, spyglass_link>>
                                                   ELSE <<>>,
             artifacts_url |-> IF found.none THEN "" ELSE found.v,
             pr_numbers |-> SelectSeq(latest_failed.pulls, LAMBDA n : n # 0),
             result |-> latest_failed.Result]]

\* lines 318-345 and 418-446: the latest failure with its artifacts URL and
\* related pull requests; returns the record and the events of the lookup
latest_failed_details(latest_failed, spy) ==
    LET spyglass_link == latest_failed.SpyglassLink
        html_content == IF spyglass_link # "" THEN fetch_spyglass_page(spy) ELSE None
        found == IF html_content.none THEN None ELSE extract_artifacts_url(html_content.v)
    IN  [events |-> IF spyglass_link # "" THEN <<"spyglass_fetch">> ELSE <<>>,
         info |->
            [build_id |-> latest_failed.ID,
             started |-> StartedOf(latest_failed),
             duration |-> latest_failed.Duration,
             spyglass_url |-> IF spyglass_link # "" THEN <<PROW_BASE_URL, spyglass_link>>
                                                   ELSE <<>>,
             artifacts_url |-> IF found.none THEN "" ELSE found.v,
             pr_numbers |-> SelectSeq(latest_failed.pulls, LAMBDA n : n # 0),
             result |-> latest_failed.Result]]

failure_detail(job) ==
    [build_id |-> job.ID, started |-> StartedOf(job), duration |-> job.Duration,
     result |-> job.Result]

\* the summary of the `except Exception` handler (lines 362-369)
ZeroSummary(job_name) ==
    [job_name |-> job_name, total_failures |-> 0, latest_failed |-> None,
     failure_details |-> <<>>]

\* returns exc ("none": the call returned ret; "SystemExit": it did not
\* return), caught (the exception the handler at line 362 caught, or
\* "none"), the directory afterwards, the I/O events, the builds used
count_failed_jobs_in_window(fs, job_name, hours_back, use_cache, page, spy, t, clk) ==
    LET f == load_or_fetch_builds(fs, job_name, use_cache, page, t)
        caught(e) == [exc |-> "none", caught |-> e, fs |-> f.fs, events |-> f.events,
                      hit |-> f.hit, builds |-> f.builds, ret |-> ZeroSummary(job_name)]
    IN  IF f.exc = "SystemExit"
        THEN [exc |-> "SystemExit", caught |-> "none", fs |-> f.fs,
              events |-> f.events, hit |-> f.hit, builds |-> f.builds,
              ret |-> ZeroSummary(job_name)]
        ELSE IF f.exc # "none"
        THEN caught(f.exc)
        ELSE LET failed_jobs == get_failed_jobs(f.builds)
                 w == filter_window(failed_jobs, hours_back, clk, 1)
             IN  IF w.exc # "none"
                 THEN caught(w.exc)
                 ELSE LET failed_jobs_in_window == w.v
                          d == IF failed_jobs_in_window # <<>>
                               THEN latest_failed_details(failed_jobs_in_window[1], spy)
                               ELSE [events |-> <<>>, info |-> None]
                      IN  [exc |-> "none", caught |-> "none", fs |-> f.fs,
                           events |-> f.events \o d.events, hit |-> f.hit,
                           builds |-> f.builds,
                           ret |->
                             [job_name |-> job_name,
                              total_failures |-> Len(failed_jobs_in_window),
                              latest_failed |->
                                 IF failed_jobs_in_window # <<>> THEN Some(d.info)
                                                                 ELSE None,
                              failure_details |->
                                 [i \in 1..Len(failed_jobs_in_window) |->
                                     failure_detail(failed_jobs_in_window[i])]]]

\* mutant: the oldest in-window failure is reported
get_latest_failed_job_oldest(fs, job_name, hours_back, use_cache, page, spy, t, clk) ==
    LET f == load_or_fetch_builds(fs, job_name, use_cache, page, t)
        out(e, c, ev, r) == [exc |-> e, caught |-> c, fs |-> f.fs, events |-> ev,
                             hit |-> f.hit, builds |-> f.builds, ret |-> r]
    IN  IF f.exc = "SystemExit"
        THEN out("SystemExit", "none", f.events, None)
        ELSE IF f.exc # "none"
        THEN out("none", f.exc, f.events, None)
        ELSE LET failed_jobs == get_failed_jobs(f.builds)
             IN  IF failed_jobs = <<>>
                 THEN out("none", "none", f.events, None)
                 ELSE LET w == filter_window(failed_jobs, hours_back, clk, 1)
                      IN  IF w.exc # "none"
                          THEN out("none", w.exc, f.events, None)
                          ELSE IF w.v = <<>>
                          THEN out("none", "none", f.events, None)
                          ELSE LET d == latest_failed_details(w.v[Len(w.v)], spy)
                               IN  out("none", "none", f.events \o d.events,
                                       Some([job_name |-> job_name] @@ d.info))

\* as above; ret is None or the latest failure (with its job_name)
get_latest_failed_job(fs, job_name, hours_back, use_cache, page, spy, t, clk) ==
    LET f == load_or_fetch_builds(fs, job_name, use_cache, page, t)
        out(e, c, ev, r) == [exc |-> e, caught |-> c, fs |-> f.fs, events |-> ev,
                             hit |-> f.hit, builds |-> f.builds, ret |-> r]
    IN  IF f.exc = "SystemExit"
        THEN out("SystemExit", "none", f.events, None)
        ELSE IF f.exc # "none"
        THEN out("none", f.exc, f.events, None)
        ELSE LET failed_jobs == get_failed_jobs(f.builds)
             IN  IF failed_jobs = <<>>
                 THEN out("none", "none", f.events, None)
                 ELSE LET w == filter_window(failed_jobs, hours_back, clk, 1)
                      IN  IF w.exc # "none"
                          THEN out("none", w.exc, f.events, None)
                          ELSE IF w.v = <<>>
                          THEN out("none", "none", f.events, None)
                          ELSE LET d == latest_failed_details(w.v[1], spy)
                               IN  out("none", "none", f.events \o d.events,
                                       Some([job_name |-> job_name] @@ d.info))

----------------------------------------------------------------------------
(* Inputs of the calls *)

HoursBackValues == {1, DEFAULT_HOURS_BACK}

Pages == FailedPages \cup { Page("ok", "json", b) : b \in CacheBuildLists }

\* the clock readings of one call's window loop: one per failed job
Readings(t) == [i \in 1..MaxBuilds |-> t]

NoCall == [op |-> "none", job_name |-> <<>>]

----------------------------------------------------------------------------
(* State machine *)

Init ==
    /\ now = 0
    /\ files = [p \in CacheFileNames |-> NoFile]
    /\ last = NoCall
    /\ tw = NoCall
    /\ mx = NoCall
    /\ gcs = NoCall
    /\ rep = NoCall /\ mcp = NoCall /\ wr = NoCall

\* the program is sequential: an operation is called when the caller holds
\* no unconsumed result
Idle == last = NoCall

\* time passes
Tick ==
    \E d \in ClockSteps :
        /\ Idle
        /\ now + d <= MaxNow
        /\ now' = now + d
        /\ UNCHANGED <<files, last, tw, mx, gcs, rep, mcp, wr>>

\* the cache file is damaged outside the program (a killed writer, bit rot,
\* another tool): its content no longer is the JSON object that was written
CorruptCacheFile ==
    \E p \in CacheFileNames, k \in CorruptKinds :
        /\ Idle
        /\ files[p].exists
        /\ files[p].kind = "entry"
        /\ files' = [files EXCEPT ![p] = [NoFile EXCEPT !.exists = TRUE,
                                                         !.mtime = now,
                                                         !.kind = k]]
        /\ UNCHANGED <<now, last, tw, mx, gcs, rep, mcp, wr>>

LoadCachedJobData ==
    \E j \in JobNames :
        LET r == load_cached_job_data(files, j, now)
        IN  /\ Idle
            /\ last' = [op |-> "load", job_name |-> j, exc |-> r.exc,
                        ret |-> IF r.exc = "none" THEN r.v ELSE None]
            /\ UNCHANGED <<now, files, tw, mx, gcs, rep, mcp, wr>>

SaveJobDataToCache ==
    \E j \in JobNames, b \in CacheBuildLists :
        /\ Idle
        /\ files' = save_job_data_to_cache(files, j, b, now)
        /\ last' = [op |-> "save", job_name |-> j, builds |-> b,
                    old |-> files[get_cache_file_path(j)]]
        /\ UNCHANGED <<now, tw, mx, gcs, rep, mcp, wr>>

ClearCacheForJob ==
    \E j \in JobNames :
        LET r == clear_cache_for_job(files, j)
        IN  /\ Idle
            /\ files' = r.fs
            /\ last' = [op |-> "clear", job_name |-> j, ret |-> r.ret]
            /\ UNCHANGED <<now, tw, mx, gcs, rep, mcp, wr>>

ClearAllCache ==
    LET r == clear_all_cache(files)
    IN  /\ Idle
        /\ files' = r.fs
        /\ last' = [op |-> "clear_all", job_name |-> <<>>, ret |-> r.ret]
        /\ UNCHANGED <<now, tw, mx, gcs, rep, mcp, wr>>

InSeq(x, seq) == \E i \in 1..Len(seq) : seq[i] = x

\* what the caller and the network saw of a call: page and spy are the
\* responses that were fetched ("none" when no request was made)
CallRecord(op, j, h, uc, page, spy, r) ==
    [op |-> op, job_name |-> j, hours_back |-> h, use_cache |-> uc,
     page |-> IF InSeq("dashboard_fetch", r.events) THEN page ELSE Page("none", "none", <<>>),
     spy |-> IF InSeq("spyglass_fetch", r.events) THEN spy ELSE "none",
     exc |-> r.exc, caught |-> r.caught, events |-> r.events, hit |-> r.hit,
     builds |-> r.builds, ret |-> r.ret]

CountFailedJobsInWindow ==
    \E j \in JobNames, h \in HoursBackValues, uc \in BOOLEAN,
       page \in Pages, spy \in SpyResponses :
        LET r == count_failed_jobs_in_window(files, j, h, uc, page, spy, now,
                                             Readings(now))
        IN  /\ Idle
            /\ files' = r.fs
            /\ last' = CallRecord("count", j, h, uc, page, spy, r)
            /\ UNCHANGED <<now, tw, mx, gcs, rep, mcp, wr>>

GetLatestFailedJob ==
    \E j \in JobNames, h \in HoursBackValues, uc \in BOOLEAN,
       page \in Pages, spy \in SpyResponses :
        LET r == get_latest_failed_job(files, j, h, uc, page, spy, now,
                                       Readings(now))
        IN  /\ Idle
            /\ files' = r.fs
            /\ last' = CallRecord("latest", j, h, uc, page, spy, r)
            /\ UNCHANGED <<now, tw, mx, gcs, rep, mcp, wr>>

\* main in refresh mode, for one job: clear_cache_for_job, then
\* get_latest_failed_job with use_cache=True
refresh_job(fs, job_name, hours_back, page, spy, t, clk) ==
    LET cleared == clear_cache_for_job(fs, job_name)
        r == get_latest_failed_job(cleared.fs, job_name, hours_back, TRUE, page,
                                   spy, t, clk)
    IN  [r EXCEPT !.events = <<"cache_clear">> \o @]

RefreshJob ==
    \E j \in JobNames, h \in HoursBackValues, page \in Pages, spy \in SpyResponses :
        LET r == refresh_job(files, j, h, page, spy, now, Readings(now))
        IN  /\ Idle
            /\ files' = r.fs
            /\ last' = CallRecord("refresh", j, h, TRUE, page, spy, r)
            /\ UNCHANGED <<now, tw, mx, gcs, rep, mcp, wr>>

\* the two extractors
Extractors == {"ProwJobAnalyzer", "ProwJobCrawler"}

\* extract_builds_json called on a page that was fetched
ExtractBuildsJson ==
    \E impl \in Extractors, html_content \in { p \in Pages : p.fetch = "ok" } :
        LET r == IF impl = "ProwJobAnalyzer"
                 THEN extract_builds_json(html_content)
                 ELSE crawler_extract_builds_json(html_content)
        IN  /\ Idle
            /\ last' = [op |-> "extract", job_name |-> <<>>, impl |-> impl,
                        html_content |-> html_content, exc |-> r.exc,
                        ret |-> IF r.exc = "none" THEN Some(r.v) ELSE None]
            /\ UNCHANGED <<now, files, tw, mx, gcs, rep, mcp, wr>>

\* the caller takes the result and goes on
ConsumeResult ==
    /\ ~Idle
    /\ last' = NoCall
    /\ UNCHANGED <<now, files, tw, mx, gcs, rep, mcp, wr>>

Next ==
    \/ Tick
    \/ CorruptCacheFile
    \/ LoadCachedJobData
    \/ SaveJobDataToCache
    \/ ClearCacheForJob
    \/ ClearAllCache
    \/ CountFailedJobsInWindow
    \/ GetLatestFailedJob
    \/ ExtractBuildsJson
    \/ RefreshJob
    \/ ConsumeResult

Spec == Init /\ [][Next]_vars

----------------------------------------------------------------------------
(* is_within_time_window on its own: the inputs are drawn by InitWindow *)

\* instants around the 1 hour and 12 hour cutoffs of now = 0 and now = 1
WindowInstants ==
    { -(12 * 3600) - 1, -(12 * 3600), -(12 * 3600) + 1,
      -3601, -3600, -3599, 0, 1 }

StartTimeStrings ==
    { NoTime(k) : k \in {"null", "empty", "unknown", "garbage", "number"} }
    \cup { Aware(t) : t \in WindowInstants }
    \cup { Naive(t) : t \in {-3600, 0} }

WindowHoursBack == {0, 1, DEFAULT_HOURS_BACK}

InitWindow ==
    /\ now \in {0, 1}
    /\ files = [p \in CacheFileNames |-> NoFile]
    /\ last = NoCall
    /\ tw \in { [op |-> "pending", start_time_str |-> s, hours_back |-> h] :
                  s \in StartTimeStrings, h \in WindowHoursBack }
    /\ mx = NoCall
    /\ gcs = NoCall
    /\ rep = NoCall /\ mcp = NoCall /\ wr = NoCall

IsWithinTimeWindow ==
    LET r == is_within_time_window(tw.start_time_str, tw.hours_back, now)
    IN  /\ tw.op = "pending"
        /\ tw' = [op |-> "done", start_time_str |-> tw.start_time_str,
                  hours_back |-> tw.hours_back, exc |-> r.exc,
                  ret |-> IF r.exc = "none" THEN r.v ELSE FALSE]
        /\ UNCHANGED <<now, files, last, mx, gcs, rep, mcp, wr>>

NextWindow == IsWithinTimeWindow

SpecWindow == InitWindow /\ [][NextWindow]_vars

----------------------------------------------------------------------------
(* Vocabulary of the claims, stated on the cache directory itself *)

Calls == {"count", "latest"}

MaxAge == MAX_AGE_HOURS * SECONDS_PER_HOUR

FileOf(fs, job_name) == fs[get_cache_file_path(job_name)]

\* the cache holds a valid entry for the job at time t: present, not
\* expired, and the JSON object that a put wrote
ValidEntry(fs, job_name, t) ==
    /\ FileOf(fs, job_name).exists
    /\ FileOf(fs, job_name).kind = "entry"
    /\ t - FileOf(fs, job_name).mtime < MaxAge

\* the cache read finds nothing for the job at time t: no file, an expired
\* file, or a fresh file that is not JSON
CacheMiss(fs, job_name, t) ==
    \/ ~FileOf(fs, job_name).exists
    \/ t - FileOf(fs, job_name).mtime >= MaxAge
    \/ FileOf(fs, job_name).kind = "truncated"

\* the fresh file of the job does not hold a job entry
CorruptEntry(fs, job_name, t) ==
    /\ FileOf(fs, job_name).exists
    /\ FileOf(fs, job_name).kind \in CorruptKinds
    /\ t - FileOf(fs, job_name).mtime < MaxAge

EntryOf(job_name, builds, t) ==
    [exists |-> TRUE, mtime |-> t, kind |-> "entry", job_name |-> job_name,
     cached_at |-> t, builds |-> builds]

----------------------------------------------------------------------------
(* C1: a call of count_failed_jobs_in_window or get_latest_failed_job with  *)
(* use_cache = TRUE that finds a valid entry for the job uses exactly the   *)
(* cached builds, makes no dashboard fetch and leaves the cache as it was;  *)
(* an empty cached list is used like any other.                             *)
C1_CacheHitUsesCachedBuilds ==
    [][ (/\ last'.op \in Calls
         /\ last'.use_cache
         /\ ValidEntry(files, last'.job_name, now))
        => (/\ last'.hit
            /\ last'.builds = FileOf(files, last'.job_name).builds
            /\ ~InSeq("dashboard_fetch", last'.events)
            /\ ~InSeq("cache_write", last'.events)
            /\ last'.exc # "SystemExit"
            /\ files' = files) ]_vars

\* a count that was answered from a valid entry holding the empty list
C1_Witness ==
    /\ last.op = "count"
    /\ last.use_cache
    /\ last.hit
    /\ last.builds = <<>>
    /\ ValidEntry(files, last.job_name, now)
    /\ last.events = <<"cache_read">>

(* C2: on a cache miss with use_cache = TRUE the call fetches the          *)
(* dashboard, then extracts, then writes the cache, in this order; when    *)
(* the call returns, the job's cache entry holds exactly the builds of the *)
(* page that was fetched.                                                   *)
C2_MissFetchExtractStore ==
    [][ (/\ last'.op \in Calls
         /\ last'.use_cache
         /\ CacheMiss(files, last'.job_name, now)
         /\ last'.exc = "none")
        => (/\ Len(last'.events) >= 4
            /\ SubSeq(last'.events, 1, 4) =
                  <<"cache_read", "dashboard_fetch", "extract", "cache_write">>
            /\ last'.page.body = "json"
            /\ last'.builds = last'.page.builds
            /\ FileOf(files', last'.job_name) =
                  EntryOf(last'.job_name, last'.page.builds, now)) ]_vars

\* a count made after time had passed that missed and stored the page's builds
C2_Witness ==
    /\ last.op = "count"
    /\ last.use_cache
    /\ ~last.hit
    /\ last.exc = "none"
    /\ last.page.builds = BuildsA
    /\ InSeq("cache_write", last.events)
    /\ FileOf(files, last.job_name).builds = BuildsA
    /\ FileOf(files, last.job_name).mtime = now
    /\ now > 0

(* C3: a call with use_cache = FALSE neither reads nor writes the cache:   *)
(* it starts with the dashboard fetch and leaves every cache file as it    *)
(* was, whether it returns or fails.                                        *)
C3_NoCacheLeavesCacheAlone ==
    [][ (/\ last'.op \in Calls
         /\ ~last'.use_cache)
        => (/\ files' = files
            /\ ~last'.hit
            /\ ~InSeq("cache_read", last'.events)
            /\ ~InSeq("cache_write", last'.events)
            /\ Len(last'.events) >= 1
            /\ last'.events[1] = "dashboard_fetch") ]_vars

\* a successful uncached call made while the job has a valid entry that
\* differs from the page
C3_Witness ==
    /\ last.op \in Calls
    /\ ~last.use_cache
    /\ last.exc = "none"
    /\ last.page.builds = BuildsA
    /\ ValidEntry(files, last.job_name, now)
    /\ FileOf(files, last.job_name).builds = BuildsB

(* C4: load_cached_job_data returns nothing when the job has no file or   *)
(* when the file is older than one hour; an entry written at T is returned *)
(* at T + 59 min and refused at T + 61 min; the read, stale or not, leaves *)
(* every file in place.                                                     *)
C4_GetHonoursMaxAge ==
    [][ last'.op = "load"
        => LET f == FileOf(files, last'.job_name)
           IN  /\ files' = files
               /\ last'.exc = "none" \/ f.kind = "not_object"
               /\ ~f.exists => last'.ret = None
               /\ (f.exists /\ now - f.mtime > MaxAge) => last'.ret = None
               /\ (f.exists /\ now - f.mtime >= 61 * 60) => last'.ret = None
               /\ (f.exists /\ f.kind = "entry" /\ now - f.mtime <= 59 * 60)
                     => last'.ret = Some(f.builds) ]_vars

\* a read of a 61 minutes old entry returned nothing and the file is there
C4_Witness ==
    /\ last.op = "load"
    /\ last.ret = None
    /\ FileOf(files, last.job_name).exists
    /\ FileOf(files, last.job_name).kind = "entry"
    /\ FileOf(files, last.job_name).builds = BuildsA
    /\ now - FileOf(files, last.job_name).mtime = 61 * 60

\* a read of a 59 minutes old entry returned its builds
C4_WitnessFresh ==
    /\ last.op = "load"
    /\ last.ret = Some(BuildsA)
    /\ now - FileOf(files, last.job_name).mtime = 59 * 60

(* C5: save_job_data_to_cache replaces the job's entry and never merges:   *)
(* after a put of B2 over an entry holding B1 the file holds exactly B2    *)
(* with a fresh timestamp, every other file is as before, and a get within *)
(* the maximum age returns exactly B2.                                      *)
C5_PutReplaces ==
    [][ last'.op = "save"
        => LET j == last'.job_name
           IN  /\ files' = [files EXCEPT ![get_cache_file_path(j)] =
                                EntryOf(j, last'.builds, now)]
               /\ \A t \in {now, now + 59 * 60, now + MaxAge - 1} :
                     load_cached_job_data(files', j, t) = Returned(Some(last'.builds)) ]_vars

\* a put of BuildsB over a valid entry that held BuildsA
C5_Witness ==
    /\ last.op = "save"
    /\ last.old.exists
    /\ last.old.kind = "entry"
    /\ last.old.builds = BuildsA
    /\ now - last.old.mtime < MaxAge
    /\ last.builds = BuildsB
    /\ load_cached_job_data(files, last.job_name, now) = Returned(Some(BuildsB))

(* C6: clear_cache_for_job removes the job's file if there is one and      *)
(* raises nothing if there is none; a second call changes nothing more;    *)
(* afterwards a get for the job returns nothing, and a file only comes     *)
(* back by a put.                                                           *)
C6_InvalidateIdempotent ==
    [][ /\ last'.op = "clear"
           => LET p == get_cache_file_path(last'.job_name)
              IN  /\ files' = [files EXCEPT ![p] = NoFile]
                  /\ last'.ret = files[p].exists
                  /\ clear_cache_for_job(files', last'.job_name) =
                        [fs |-> files', ret |-> FALSE]
                  /\ \A t \in {now, now + 59 * 60} :
                        load_cached_job_data(files', last'.job_name, t) = Returned(None)
        /\ \A p \in CacheFileNames :
              (~files[p].exists /\ files'[p].exists)
                 => \/ last'.op = "save"
                    \/ /\ last'.op \in Calls \cup {"refresh"}
                       /\ InSeq("cache_write", last'.events) ]_vars

\* an invalidate of a job that has no file (as a second one in a row finds
\* it): nothing is raised, and another job's file is still there
C6_Witness ==
    /\ last.op = "clear"
    /\ last.ret = FALSE
    /\ ~FileOf(files, last.job_name).exists
    /\ \E p \in CacheFileNames : files[p].exists

(* C7: clear_all_cache deletes every file and returns how many there were: *)
(* afterwards a get returns nothing for every job, and a second call       *)
(* returns 0.                                                               *)
C7_ClearAllCounts ==
    [][ last'.op = "clear_all"
        => /\ last'.ret = Cardinality({p \in CacheFileNames : files[p].exists})
           /\ \A p \in CacheFileNames : ~files'[p].exists
           /\ \A j \in JobNames : load_cached_job_data(files', j, now) = Returned(None)
           /\ clear_all_cache(files').ret = 0 ]_vars

\* a clear of a directory that held two files
C7_Witness ==
    /\ last.op = "clear_all"
    /\ last.ret = 2
    /\ \A p \in CacheFileNames : ~files[p].exists

(* C8: a fresh cache file that does not hold a job entry is treated as a   *)
(* cache miss: the call goes on to fetch the dashboard, and the corrupt    *)
(* file alone causes neither a fatal error nor a zero-failure result.      *)
C8_CorruptIsMiss ==
    [][ (/\ last'.op \in Calls
         /\ last'.use_cache
         /\ CorruptEntry(files, last'.job_name, now))
        => (/\ InSeq("dashboard_fetch", last'.events)
            /\ last'.caught \notin {"AttributeError", "UnicodeDecodeError"}) ]_vars

\* what the code does keep of C8: a file that is not JSON is a miss
C8_TruncatedIsMiss ==
    [][ (/\ last'.op \in Calls
         /\ last'.use_cache
         /\ CorruptEntry(files, last'.job_name, now)
         /\ FileOf(files, last'.job_name).kind = "truncated")
        => (/\ InSeq("dashboard_fetch", last'.events)
            /\ last'.caught \notin {"AttributeError", "UnicodeDecodeError"}) ]_vars

(* C9: is_within_time_window returns a boolean for every input: FALSE     *)
(* when the start time is missing or unparseable, and otherwise TRUE       *)
(* exactly when started >= now - hours_back hours (the bound included).    *)
C9_WindowIsTotalAndInclusive ==
    tw.op = "done"
    => /\ tw.exc = "none"
       /\ tw.ret \in BOOLEAN
       /\ tw.start_time_str.kind \in {"null", "empty", "unknown", "garbage", "number"}
             => tw.ret = FALSE
       /\ tw.start_time_str.kind = "aware"
             => tw.ret = (tw.start_time_str.t >= now - tw.hours_back * 3600)

\* what the code does keep of C9: the same, for every start time that is
\* not an ISO-8601 string without UTC offset
C9_ExceptNaive ==
    (tw.op = "done" /\ tw.start_time_str.kind # "naive")
    => /\ tw.exc = "none"
       /\ tw.start_time_str.kind \in {"null", "empty", "unknown", "garbage", "number"}
             => tw.ret = FALSE
       /\ tw.start_time_str.kind = "aware"
             => tw.ret = (tw.start_time_str.t >= now - tw.hours_back * 3600)

\* a start time is in the window of a call: it carries a UTC offset and is
\* not before now - hours_back hours
InWindow(started, hours_back, t) ==
    /\ started.kind = "aware"
    /\ started.t >= t - hours_back * 3600

InWindowFailures(builds, hours_back, t) ==
    SelectSeq(builds, LAMBDA b : /\ b.Result = "FAILURE"
                                 /\ InWindow(b.Started, hours_back, t))

(* C10: for every build list, count_failed_jobs_in_window returns          *)
(* total_failures = the number of builds with Result "FAILURE" and a start *)
(* time in the window, and failure_details lists exactly those builds in   *)
(* the order of the build list.                                             *)
C10_CountsInWindowFailures ==
    (last.op = "count" /\ last.exc = "none")
    => LET expected == InWindowFailures(last.builds, last.hours_back, now)
       IN  /\ last.ret.total_failures = Len(expected)
           /\ Len(last.ret.failure_details) = last.ret.total_failures
           /\ \A i \in 1..Len(expected) :
                 /\ last.ret.failure_details[i].build_id = expected[i].ID
                 /\ last.ret.failure_details[i].started = expected[i].Started
                 /\ last.ret.failure_details[i].result = "FAILURE"

\* what the code does keep of C10: the same, for every build list in which
\* no failure has a start time without UTC offset
C10_ExceptNaive ==
    (last.op = "count" /\ last.exc = "none"
       /\ last.caught \notin {"AttributeError", "UnicodeDecodeError"}
       /\ \A i \in 1..Len(last.builds) :
             last.builds[i].Result = "FAILURE" => last.builds[i].Started.kind # "naive")
    => LET expected == InWindowFailures(last.builds, last.hours_back, now)
       IN  /\ last.caught = "none"
           /\ last.ret.total_failures = Len(expected)
           /\ Len(last.ret.failure_details) = last.ret.total_failures
           /\ \A i \in 1..Len(expected) :
                 /\ last.ret.failure_details[i].build_id = expected[i].ID
                 /\ last.ret.failure_details[i].started = expected[i].Started
                 /\ last.ret.failure_details[i].result = "FAILURE"

----------------------------------------------------------------------------
(* The summary and its latest failure *)

\* the latest failure a call reported: latest_failed of the summary, or the
\* value get_latest_failed_job returned
LatestOf(call) == IF call.op = "count" THEN call.ret.latest_failed ELSE call.ret

\* the pull-request numbers of a build: pulls holds one number per pull, 0
\* for a pull that carries none
RelatedPRs(b) == SelectSeq(b.pulls, LAMBDA n : n # 0)

(* C11: in every summary count_failed_jobs_in_window returns, latest_failed *)
(* is present exactly when total_failures > 0; when present, its build_id   *)
(* is that of failure_details[0] and its pr_numbers are the pull-request    *)
(* numbers of that build.                                                   *)
C11_LatestFailedIffFailures ==
    (last.op = "count" /\ last.exc = "none")
    => /\ (~last.ret.latest_failed.none) <=> (last.ret.total_failures > 0)
       /\ ~last.ret.latest_failed.none
             => /\ last.ret.failure_details # <<>>
                /\ last.ret.latest_failed.v.build_id
                      = last.ret.failure_details[1].build_id
                /\ \E i \in 1..Len(last.builds) :
                      /\ last.builds[i].ID = last.ret.latest_failed.v.build_id
                      /\ last.ret.latest_failed.v.pr_numbers
                            = RelatedPRs(last.builds[i])

\* a summary with two failures whose latest failure carries pull request 9
\* (and not the pull without a number)
C11_Witness ==
    /\ last.op = "count"
    /\ last.exc = "none"
    /\ last.builds = BuildsB
    /\ last.ret.total_failures = 1
    /\ ~last.ret.latest_failed.none
    /\ last.ret.latest_failed.v.build_id = "202"
    /\ last.ret.latest_failed.v.pr_numbers = <<9>>

\* a summary without failures and without latest_failed
C11_WitnessNone ==
    /\ last.op = "count"
    /\ last.exc = "none"
    /\ last.builds = BuildsB
    /\ last.ret.total_failures = 0
    /\ last.ret.latest_failed.none

(* C12: the build reported as latest_failed is the most recent in-window   *)
(* failure: no FAILURE build of the list with a start time in the window   *)
(* started later than it.                                                   *)
C12_LatestIsMostRecent ==
    (last.op \in Calls /\ last.exc = "none" /\ ~LatestOf(last).none)
    => \A i \in 1..Len(last.builds) :
          (/\ last.builds[i].Result = "FAILURE"
           /\ InWindow(last.builds[i].Started, last.hours_back, now))
          => last.builds[i].Started.t <= LatestOf(last).v.started.t

\* what the code does keep of C12: the build reported is the first
\* in-window failure in the order of the build list
C12_LatestIsFirstInListOrder ==
    (last.op \in Calls /\ last.exc = "none" /\ ~LatestOf(last).none)
    => LET expected == InWindowFailures(last.builds, last.hours_back, now)
       IN  /\ expected # <<>>
           /\ LatestOf(last).v.build_id = expected[1].ID
           /\ LatestOf(last).v.started = expected[1].Started

(* C13: when the dashboard fetch of a job fails, when its page cannot be   *)
(* extracted, and when the dashboard lists no build, the count call        *)
(* returns to its caller the summary with total_failures = 0, no           *)
(* latest_failed and empty failure_details.                                 *)
C13_FetchFailureIsZeroSummary ==
    (/\ last.op = "count"
     /\ InSeq("dashboard_fetch", last.events)
     /\ \/ last.page.fetch = "error"
        \/ last.page.body \in {"no_match", "bad_json"}
        \/ last.page.builds = <<>>)
    => /\ last.exc = "none"
       /\ last.ret = ZeroSummary(last.job_name)

\* what the code does keep of C13: the job without dashboard entries
C13_ZeroEntriesIsZeroSummary ==
    (/\ last.op = "count"
     /\ InSeq("dashboard_fetch", last.events)
     /\ last.page = Page("ok", "json", <<>>))
    => /\ last.exc = "none"
       /\ last.ret = ZeroSummary(last.job_name)

(* C14: when the request for the Spyglass page of the latest failure       *)
(* fails, the count call still returns: total_failures is the number of    *)
(* in-window failures and latest_failed is present with artifacts_url ''.  *)
C14_ArtifactFetchFailureDegrades ==
    (last.op = "count" /\ last.spy = "error")
    => /\ last.exc = "none"
       /\ last.caught = "none"
       /\ last.ret.total_failures
             = Len(InWindowFailures(last.builds, last.hours_back, now))
       /\ last.ret.total_failures > 0
       /\ ~last.ret.latest_failed.none
       /\ last.ret.latest_failed.v.artifacts_url = ""

\* the Spyglass request of a job with two in-window failures failed
C14_Witness ==
    /\ last.op = "count"
    /\ last.spy = "error"
    /\ last.builds = BuildsA
    /\ last.ret.total_failures = 2
    /\ last.ret.latest_failed.v.build_id = "106"

(* C18: extract_builds_json (of ProwJobAnalyzer and of ProwJobCrawler) on  *)
(* a page without `var allBuilds = ...;`, or whose literal is not JSON,    *)
(* ends in the fatal exit and returns no build list; a count or            *)
(* latest-failure call that extracted such a page returns nothing either.  *)
C18_MalformedPageIsFatal ==
    /\ (last.op = "extract" /\ last.html_content.body \in {"no_match", "bad_json"})
          => (last.exc = "SystemExit" /\ last.ret.none)
    /\ (/\ last.op \in Calls
        /\ InSeq("extract", last.events)
        /\ last.page.body \in {"no_match", "bad_json"})
          => (/\ last.exc = "SystemExit"
              /\ ~InSeq("cache_write", last.events)
              /\ ~InSeq("spyglass_fetch", last.events))

\* ProwJobCrawler's extractor was given a page whose literal is not JSON
C18_Witness ==
    /\ last.op = "extract"
    /\ last.impl = "ProwJobCrawler"
    /\ last.html_content.body = "bad_json"
    /\ last.exc = "SystemExit"

\* ProwJobAnalyzer's extractor was given a page without the assignment
C18_WitnessNoMatch ==
    /\ last.op = "extract"
    /\ last.impl = "ProwJobAnalyzer"
    /\ last.html_content.body = "no_match"
    /\ last.exc = "SystemExit"

(* C20: within one count call the Spyglass page is requested at most once, *)
(* as the last I/O step, after the builds were obtained (cache hit, or     *)
(* dashboard fetched and extracted); when it is requested, the list has an *)
(* in-window failure, the first of them has a SpyglassLink, and that link  *)
(* is the one requested.                                                    *)
C20_ArtifactFetchAfterBuilds ==
    last.op = "count"
    => LET ev == last.events
           fetches == { i \in 1..Len(ev) : ev[i] = "spyglass_fetch" }
           expected == InWindowFailures(last.builds, last.hours_back, now)
       IN  /\ Cardinality(fetches) <= 1
           /\ fetches # {}
                 => /\ fetches = {Len(ev)}
                    /\ \/ last.hit /\ ev[1] = "cache_read"
                       \/ \E i, k \in 1..Len(ev) :
                             /\ i < k
                             /\ k < Len(ev)
                             /\ ev[i] = "dashboard_fetch"
                             /\ ev[k] = "extract"
                    /\ last.exc = "none"
                    /\ expected # <<>>
                    /\ expected[1].SpyglassLink # ""
                    /\ last.ret.latest_failed.v.spyglass_url
                          = <<PROW_BASE_URL, expected[1].SpyglassLink>>

\* the Spyglass page was requested after the dashboard was fetched and
\* extracted
C20_Witness ==
    /\ last.op = "count"
    /\ ~last.hit
    /\ InSeq("extract", last.events)
    /\ last.events[Len(last.events)] = "spyglass_fetch"

\* the first in-window failure has no SpyglassLink: no request, although a
\* later failure has one
C20_WitnessNoLink ==
    /\ last.op = "count"
    /\ last.exc = "none"
    /\ last.builds = BuildsD
    /\ last.ret.total_failures = 2
    /\ ~InSeq("spyglass_fetch", last.events)

----------------------------------------------------------------------------
(* The batches: get_multiple_periodic_jobs_counts and                      *)
(* get_multi_release_counts.  One action per loop iteration; a SystemExit  *)
(* raised inside an iteration ends the batch (and the process).            *)

\* releases and the job names of the config file
R420 == <<"4", ".", "2", "0">>
R421 == <<"4", ".", "2", "1">>
ReleaseLists == { <<>>, <<R420>>, <<R420, R421>> }

ConfigJobs == << <<"k">>, <<"j">>, <<"j", "1">> >>

\* what the request for the config file yields: "error" (RequestException),
\* "bad_yaml" (YAMLError), "no_job_names" (no slack_reporter[0].job_names)
\* or "ok" with the list
Config(kind, job_names) == [kind |-> kind, job_names |-> job_names]

ConfigResponses ==
    { Config("error", <<>>), Config("bad_yaml", <<>>), Config("no_job_names", <<>>),
      Config("ok", <<>>), Config("ok", SubSeq(ConfigJobs, 1, 1)),
      Config("ok", ConfigJobs) }

fetch_prow_job_names(config) ==
    IF config.kind = "ok" /\ config.job_names # <<>>
    THEN config.job_names
    ELSE <<>>

\* mutant: the release is left at the default of the parameter
construct_full_job_name_default(job_name, release_version) ==
    <<PERIODIC_PREFIX>> \o R421 \o <<PERIODICS_INFIX>> \o job_name

construct_full_job_name(job_name, release_version) ==
    <<PERIODIC_PREFIX>> \o release_version \o <<PERIODICS_INFIX>> \o job_name

\* Python dicts: functions on their key set
EmptyDict == <<>>
DictPut(d, k, v) == [x \in DOMAIN d \cup {k} |-> IF x = k THEN v ELSE d[x]]

Elems(seq) == { seq[i] : i \in 1..Len(seq) }

\* the dashboard and Spyglass responses of the batch's calls
BatchPages ==
    { Page("error", "no_match", <<>>), Page("ok", "no_match", <<>>),
      Page("ok", "json", <<>>), Page("ok", "json", BuildsB),
      Page("ok", "json", BuildsC) }

BatchSpy == {"error", "link"}

SpecificJobs == { None, Some(ConfigJobs[2]) }

BatchCacheFileNames ==
    { get_cache_file_path(construct_full_job_name(j, r)) :
        j \in Elems(ConfigJobs), r \in {R420, R421} }

\* a batch that was called and has not run yet
BatchCall(op, release_versions, specific_job, use_cache) ==
    [op |-> op, pc |-> "start", release_versions |-> release_versions,
     specific_job |-> specific_job, hours_back |-> DEFAULT_HOURS_BACK,
     use_cache |-> use_cache, config_fetches |-> 0, job_names |-> <<>>,
     r |-> 1, j |-> 1, release_data |-> EmptyDict, matrix |-> EmptyDict,
     job_counts |-> <<>>, calls |-> <<>>, ret |-> None, report |-> None]

InitBatch ==
    /\ now = 0
    /\ files = [p \in BatchCacheFileNames |-> NoFile]
    /\ last = NoCall
    /\ tw = NoCall
    /\ gcs = NoCall
    /\ rep = NoCall /\ mcp = NoCall /\ wr = NoCall
    /\ mx \in { BatchCall("get_multi_release_counts", rs, sj, uc) :
                  rs \in ReleaseLists, sj \in SpecificJobs, uc \in BOOLEAN }
              \cup
              { BatchCall("get_multiple_periodic_jobs_counts", <<rv>>, sj, uc) :
                  rv \in {R420, R421}, sj \in SpecificJobs, uc \in BOOLEAN }

\* one count_failed_jobs_in_window call of a batch and its record
BatchCount(job_name, release_version, page, spy) ==
    LET full_job_name == construct_full_job_name(job_name, release_version)
        c == count_failed_jobs_in_window(files, full_job_name, mx.hours_back,
                                         mx.use_cache, page, spy, now, Readings(now))
    IN  [c |-> c,
         call |-> [release |-> release_version, config_job |-> job_name]
                  @@ CallRecord("count", full_job_name, mx.hours_back,
                                mx.use_cache, page, spy, c)]

\* get_multi_release_counts, lines 526-541: the job names are fetched and
\* filtered; without job names the empty result is returned
GetMultiReleaseCounts_FetchJobNames ==
    \E config \in ConfigResponses :
        LET all == fetch_prow_job_names(config)
            job_names == IF mx.specific_job.none
                         THEN all
                         ELSE SelectSeq(all, LAMBDA job : job = mx.specific_job.v)
            fetched == [mx EXCEPT !.config_fetches = @ + 1]
        IN  /\ mx.op = "get_multi_release_counts"
            /\ mx.pc = "start"
            /\ mx' = IF job_names = <<>>
                     THEN [fetched EXCEPT
                             !.pc = "done",
                             !.ret = Some([job_names |-> <<>>, releases |-> <<>>,
                                           matrix |-> EmptyDict])]
                     ELSE IF mx.release_versions = <<>>
                     THEN [fetched EXCEPT
                             !.pc = "done",
                             !.job_names = job_names,
                             !.report = Some([jobs |-> Len(job_names), releases |-> 0]),
                             !.ret = Some([job_names |-> job_names, releases |-> <<>>,
                                           matrix |-> EmptyDict])]
                     ELSE [fetched EXCEPT
                             !.pc = "loop",
                             !.job_names = job_names,
                             !.report = Some([jobs |-> Len(job_names),
                                              releases |-> Len(mx.release_versions)])]
            /\ UNCHANGED <<now, files, last, tw, gcs, rep, mcp, wr>>

\* get_multi_release_counts, lines 547-562: one iteration of the inner loop;
\* after the last job of a release the row is stored, after the last
\* release the result is returned
GetMultiReleaseCounts_Cell ==
    \E page \in BatchPages, spy \in BatchSpy :
        LET release_version == mx.release_versions[mx.r]
            job_name == mx.job_names[mx.j]
            b == BatchCount(job_name, release_version, page, spy)
            release_data == DictPut(mx.release_data, job_name, b.c.ret)
            last_job == mx.j = Len(mx.job_names)
            matrix == IF last_job
                      THEN DictPut(mx.matrix, release_version, release_data)
                      ELSE mx.matrix
            last_cell == last_job /\ mx.r = Len(mx.release_versions)
        IN  /\ mx.op = "get_multi_release_counts"
            /\ mx.pc = "loop"
            /\ files' = b.c.fs
            /\ mx' = IF b.c.exc = "SystemExit"
                     THEN [mx EXCEPT !.pc = "exited", !.calls = Append(@, b.call)]
                     ELSE [mx EXCEPT
                             !.calls = Append(@, b.call),
                             !.release_data = IF last_job THEN EmptyDict
                                                          ELSE release_data,
                             !.matrix = matrix,
                             !.j = IF last_job THEN 1 ELSE @ + 1,
                             !.r = IF last_job THEN @ + 1 ELSE @,
                             !.pc = IF last_cell THEN "done" ELSE "loop",
                             !.ret = IF last_cell
                                     THEN Some([job_names |-> mx.job_names,
                                                releases |-> mx.release_versions,
                                                matrix |-> matrix])
                                     ELSE None]
            /\ UNCHANGED <<now, last, tw, gcs, rep, mcp, wr>>

\* get_multiple_periodic_jobs_counts, lines 494-507: a specific job is
\* counted alone, otherwise the job names are fetched
GetMultiplePeriodicJobsCounts_Start ==
    \E config \in ConfigResponses :
        LET job_names == fetch_prow_job_names(config)
        IN  /\ mx.op = "get_multiple_periodic_jobs_counts"
            /\ mx.pc = "start"
            /\ mx' = IF ~mx.specific_job.none
                     THEN [mx EXCEPT !.pc = "loop",
                                     !.job_names = <<mx.specific_job.v>>]
                     ELSE IF job_names = <<>>
                     THEN [mx EXCEPT !.pc = "done",
                                     !.config_fetches = @ + 1,
                                     !.ret = Some(<<>>)]
                     ELSE [mx EXCEPT !.pc = "loop",
                                     !.config_fetches = @ + 1,
                                     !.job_names = job_names]
            /\ UNCHANGED <<now, files, last, tw, gcs, rep, mcp, wr>>

RECURSIVE sum_total_failures(_)
sum_total_failures(job_counts) ==
    IF job_counts = <<>>
    THEN 0
    ELSE job_counts[1].total_failures + sum_total_failures(Tail(job_counts))

\* get_multiple_periodic_jobs_counts, line 497 and lines 512-521: one job is
\* counted; after the last one the totals are printed (not for a specific
\* job) and the list is returned
GetMultiplePeriodicJobsCounts_Job ==
    \E page \in BatchPages, spy \in BatchSpy :
        LET job_name == mx.job_names[mx.j]
            b == BatchCount(job_name, mx.release_versions[1], page, spy)
            job_counts == Append(mx.job_counts, b.c.ret)
            last_job == mx.j = Len(mx.job_names)
        IN  /\ mx.op = "get_multiple_periodic_jobs_counts"
            /\ mx.pc = "loop"
            /\ files' = b.c.fs
            /\ mx' = IF b.c.exc = "SystemExit"
                     THEN [mx EXCEPT !.pc = "exited", !.calls = Append(@, b.call)]
                     ELSE [mx EXCEPT
                             !.calls = Append(@, b.call),
                             !.job_counts = job_counts,
                             !.j = @ + 1,
                             !.pc = IF last_job THEN "done" ELSE "loop",
                             !.report =
                                IF last_job /\ mx.specific_job.none
                                THEN Some([total_failures |-> sum_total_failures(job_counts),
                                           job_counts |-> Len(job_counts),
                                           job_names |-> Len(mx.job_names)])
                                ELSE None,
                             !.ret = IF last_job THEN Some(job_counts) ELSE None]
            /\ UNCHANGED <<now, last, tw, gcs, rep, mcp, wr>>

NextBatch ==
    \/ GetMultiReleaseCounts_FetchJobNames
    \/ GetMultiReleaseCounts_Cell
    \/ GetMultiplePeriodicJobsCounts_Start
    \/ GetMultiplePeriodicJobsCounts_Job

SpecBatch == InitBatch /\ [][NextBatch]_vars

----------------------------------------------------------------------------
(* Claims about the batches (SpecBatch) *)

\* a call of a batch whose dashboard fetch or extraction failed
CellFailed(call) ==
    /\ InSeq("dashboard_fetch", call.events)
    /\ call.page \in FailedPages

(* C15: the matrix get_multi_release_counts returns has a cell for every   *)
(* release of the release list and every job of the job list; the cell is  *)
(* the summary that count_failed_jobs_in_window returned for               *)
(* periodic-ci-openshift-microshift-release-<release>-periodics-<job>; the *)
(* job names are fetched exactly once in the call.                          *)
C15_MatrixHasEveryCell ==
    (mx.op = "get_multi_release_counts" /\ mx.pc = "done")
    => /\ mx.config_fetches = 1
       /\ \A r \in Elems(mx.release_versions), j \in Elems(mx.job_names) :
             /\ r \in DOMAIN mx.ret.v.matrix
             /\ j \in DOMAIN mx.ret.v.matrix[r]
             /\ mx.ret.v.matrix[r][j].job_name
                   = <<PERIODIC_PREFIX>> \o r \o <<PERIODICS_INFIX>> \o j
             /\ \E i \in 1..Len(mx.calls) :
                   /\ mx.calls[i].release = r
                   /\ mx.calls[i].config_job = j
                   /\ mx.calls[i].job_name = mx.ret.v.matrix[r][j].job_name
                   /\ mx.calls[i].ret = mx.ret.v.matrix[r][j]
       /\ mx.job_names # <<>>
             => /\ mx.ret.v.job_names = mx.job_names
                /\ mx.ret.v.releases = mx.release_versions
                /\ DOMAIN mx.ret.v.matrix = Elems(mx.release_versions)
                /\ \A r \in DOMAIN mx.ret.v.matrix :
                      DOMAIN mx.ret.v.matrix[r] = Elems(mx.job_names)
       /\ Len(mx.calls) = Len(mx.release_versions) * Len(mx.job_names)

\* a matrix of three jobs and two releases was returned, one cell with a
\* failure
C15_Witness ==
    /\ mx.op = "get_multi_release_counts"
    /\ mx.pc = "done"
    /\ mx.job_names = ConfigJobs
    /\ mx.release_versions = <<R420, R421>>
    /\ Len(mx.calls) = 6
    /\ mx.ret.v.matrix[R420][ConfigJobs[3]].total_failures = 1
    /\ mx.ret.v.matrix[R421][ConfigJobs[3]].total_failures = 0

(* C16: a dashboard fetch or extraction failure in one call of a batch     *)
(* does not end the batch: the failed call is recorded as the zero-failure *)
(* summary and the batch goes on to return.                                 *)
C16_FailedCellDoesNotAbort ==
    /\ mx.pc # "exited"
    /\ \A i \in 1..Len(mx.calls) :
          CellFailed(mx.calls[i])
          => /\ mx.calls[i].exc = "none"
             /\ mx.calls[i].ret = ZeroSummary(mx.calls[i].job_name)

\* what the code does keep of C16: a call that failed with an exception
\* derived from Exception is recorded as the zero-failure summary and the
\* batch goes on
C16_CaughtFailureDoesNotAbort ==
    \A i \in 1..Len(mx.calls) :
        mx.calls[i].caught # "none"
        => /\ mx.calls[i].exc = "none"
           /\ mx.calls[i].ret = ZeroSummary(mx.calls[i].job_name)
           /\ mx.pc \in {"loop", "done"} \/ i < Len(mx.calls)

\* the names of the counters a batch reports beside its data
CompletionCounters(b) ==
    (IF b.report.none THEN {} ELSE DOMAIN b.report.v)
    \cup (IF b.op = "get_multi_release_counts" /\ ~b.ret.none
          THEN DOMAIN b.ret.v
          ELSE {})

(* C17: a batch reports the counters processed, succeeded and failed       *)
(* beside its data; a batch over three jobs whose second job fails         *)
(* extraction completes (and reports failed = 1, succeeded = 2).            *)
C17_BatchReportsCompletion ==
    /\ mx.pc = "done"
          => {"processed", "succeeded", "failed"} \subseteq CompletionCounters(mx)
    /\ (/\ Len(mx.job_names) = 3
        /\ Len(mx.calls) >= 2
        /\ ~CellFailed(mx.calls[1])
        /\ mx.calls[2].page.fetch = "ok"
        /\ mx.calls[2].page.body \in {"no_match", "bad_json"})
          => mx.pc # "exited"

----------------------------------------------------------------------------
(* convert_artifacts_url_to_gcs_path on its own (SpecConvert): the method  *)
(* of ProwJobCrawler and the function of generate_gsutil_commands.py       *)

\* URLs are sequences of these runs of characters; "b" stands for any run
\* without a slash that is neither gcs nor gcsweb-ci
UrlRuns == {"/", "gcs", "gcsweb-ci", "b"}

\* the longest URL, in runs
MaxUrlLen == 7

Urls == UNION { [1..n -> UrlRuns] : n \in 0..MaxUrlLen }

GCSWEB_CI == <<"gcsweb-ci">>
GCS_SEP == <<"/", "gcs", "/">>
GS_SCHEME == "gs://"

\* sub in s
str_contains(s, sub) ==
    \E i \in 1..(Len(s) - Len(sub) + 1) : SubSeq(s, i, i + Len(sub) - 1) = sub

\* the positions at which sub starts in s
str_occurrences(s, sub) ==
    { i \in 1..(Len(s) - Len(sub) + 1) : SubSeq(s, i, i + Len(sub) - 1) = sub }

\* mutant: s.rsplit(sep, 1)[1], the part after the last occurrence
str_rsplit_1(s, sep) ==
    LET occ == str_occurrences(s, sep)
        i == CHOOSE i \in occ : \A k \in occ : k <= i
    IN  SubSeq(s, i + Len(sep), Len(s))

\* s.split(sep, 1)[1] for an s that contains sep: the part after the first
\* occurrence
str_split_1(s, sep) ==
    LET occ == str_occurrences(s, sep)
        i == CHOOSE i \in occ : \A k \in occ : i <= k
    IN  SubSeq(s, i + Len(sep), Len(s))

\* s.rstrip(ch)
RECURSIVE str_rstrip(_, _)
str_rstrip(s, ch) ==
    IF s # <<>> /\ s[Len(s)] = ch
    THEN str_rstrip(SubSeq(s, 1, Len(s) - 1), ch)
    ELSE s

\* generate_gsutil_commands.py
convert_artifacts_url_to_gcs_path(artifacts_url) ==
    IF str_contains(artifacts_url, GCSWEB_CI) /\ str_contains(artifacts_url, GCS_SEP)
    THEN LET gcs_path_part == str_rstrip(str_split_1(artifacts_url, GCS_SEP), "/")
         IN  Some(<<GS_SCHEME>> \o gcs_path_part)
    ELSE None

\* prow_crawler.py; the `except Exception` handler is not reached for a
\* string argument
crawler_convert_artifacts_url_to_gcs_path(artifacts_url) ==
    IF str_contains(artifacts_url, GCSWEB_CI) /\ str_contains(artifacts_url, GCS_SEP)
    THEN LET gcs_path_part0 == str_split_1(artifacts_url, GCS_SEP)
             gcs_path_part == str_rstrip(gcs_path_part0, "/")
         IN  Some(<<GS_SCHEME>> \o gcs_path_part)
    ELSE None

NotCalled == [done |-> FALSE]
Result(x) == [done |-> TRUE, ret |-> x]

InitConvert ==
    /\ now = 0
    /\ files = [p \in CacheFileNames |-> NoFile]
    /\ last = NoCall
    /\ tw = NoCall
    /\ mx = NoCall
    /\ rep = NoCall /\ mcp = NoCall /\ wr = NoCall
    /\ gcs \in { [op |-> "convert", artifacts_url |-> u, crawler |-> NotCalled,
                  module |-> NotCalled] : u \in Urls }

CrawlerConvert ==
    /\ gcs.op = "convert"
    /\ ~gcs.crawler.done
    /\ gcs' = [gcs EXCEPT !.crawler =
                  Result(crawler_convert_artifacts_url_to_gcs_path(gcs.artifacts_url))]
    /\ UNCHANGED <<now, files, last, tw, mx, rep, mcp, wr>>

ModuleConvert ==
    /\ gcs.op = "convert"
    /\ ~gcs.module.done
    /\ gcs' = [gcs EXCEPT !.module =
                  Result(convert_artifacts_url_to_gcs_path(gcs.artifacts_url))]
    /\ UNCHANGED <<now, files, last, tw, mx, rep, mcp, wr>>

NextConvert == CrawlerConvert \/ ModuleConvert

SpecConvert == InitConvert /\ [][NextConvert]_vars

\* the URL has the gateway's name in it, and /gcs/ starts at run i
HasGateway(url) == \E i \in 1..Len(url) : url[i] = "gcsweb-ci"
GcsAt(url, i) ==
    /\ i + 2 <= Len(url)
    /\ url[i] = "/"
    /\ url[i + 1] = "gcs"
    /\ url[i + 2] = "/"
HasGcs(url) == \E i \in 1..Len(url) : GcsAt(url, i)

\* everything after the first /gcs/
AfterFirstGcs(url) ==
    LET i == CHOOSE i \in 1..Len(url) :
                 GcsAt(url, i) /\ \A k \in 1..(i - 1) : ~GcsAt(url, k)
    IN  SubSeq(url, i + 3, Len(url))

\* s without its last character when that is a slash
WithoutTrailingSlash(s) ==
    IF s # <<>> /\ s[Len(s)] = "/" THEN SubSeq(s, 1, Len(s) - 1) ELSE s

\* s without the slashes at its end
WithoutTrailingSlashes(s) ==
    LET n == CHOOSE n \in 0..Len(s) :
                 /\ n = 0 \/ s[n] # "/"
                 /\ \A k \in (n + 1)..Len(s) : s[k] = "/"
    IN  SubSeq(s, 1, n)

\* both implementations returned x
BothReturn(x) ==
    /\ gcs.crawler.done => gcs.crawler.ret = x
    /\ gcs.module.done => gcs.module.ret = x

C19_WitnessUnresolved ==
    /\ gcs.op = "convert"
    /\ gcs.artifacts_url = <<"gcsweb-ci", "/", "b", "/">>
    /\ gcs.crawler.done
    /\ gcs.module.done
    /\ gcs.crawler.ret = None
    /\ gcs.module.ret = None

----------------------------------------------------------------------------
(* Claims about the age limit, the cache keys and failed fetches (Spec) *)

(* C21: an entry whose age is exactly the maximum age (1 hour) is still    *)
(* returned by load_cached_job_data; only an entry strictly older is       *)
(* refused.                                                                 *)
C21_ExactAgeIsStillValid ==
    [][ last'.op = "load"
        => LET f == FileOf(files, last'.job_name)
           IN  /\ (f.exists /\ f.kind = "entry" /\ now - f.mtime <= MaxAge)
                     => last'.ret = Some(f.builds)
               /\ (f.exists /\ now - f.mtime > MaxAge) => last'.ret = None ]_vars

\* what the code does keep of C21: an entry younger than the maximum age is
\* returned, every other one is refused
C21_YoungerThanMaxAge ==
    [][ last'.op = "load"
        => LET f == FileOf(files, last'.job_name)
           IN  /\ (f.exists /\ f.kind = "entry" /\ now - f.mtime < MaxAge)
                     => last'.ret = Some(f.builds)
               /\ (f.exists /\ now - f.mtime >= MaxAge) => last'.ret = None ]_vars

\* the job names other than job_name
OtherJobs(job_name) == JobNames \ {job_name}

\* what load_cached_job_data returns for each of the other jobs
GetOfOthers(fs, job_name, t) ==
    [b \in OtherJobs(job_name) |-> load_cached_job_data(fs, b, t)]

(* C22: a put, an invalidate or a cache-enabled fetch for job A never      *)
(* changes what load_cached_job_data returns for a job B with another      *)
(* name, and a get for B only returns builds that were put under the name  *)
(* B.                                                                       *)
C22_JobsDoNotInterfere ==
    [][ /\ last'.op \in {"save", "clear", "refresh"} \cup Calls
           => GetOfOthers(files', last'.job_name, now)
                 = GetOfOthers(files, last'.job_name, now)
        /\ (last'.op = "load" /\ ~last'.ret.none)
           => FileOf(files, last'.job_name).job_name = last'.job_name ]_vars

\* what the code does keep of C22: jobs whose names are sanitised to
\* different file names do not interfere
C22_KeysDoNotInterfere ==
    [][ /\ last'.op \in {"save", "clear", "refresh"} \cup Calls
           => \A b \in OtherJobs(last'.job_name) :
                 get_cache_file_path(b) # get_cache_file_path(last'.job_name)
                 => load_cached_job_data(files', b, now)
                       = load_cached_job_data(files, b, now)
        /\ (last'.op = "load" /\ ~last'.ret.none)
           => get_cache_file_path(FileOf(files, last'.job_name).job_name)
                 = get_cache_file_path(last'.job_name) ]_vars

\* the dashboard response of the call made the fetch or the extraction fail
FetchFailed(call) ==
    /\ InSeq("dashboard_fetch", call.events)
    /\ call.page \in FailedPages

(* C24: a call of count_failed_jobs_in_window or get_latest_failed_job     *)
(* requests the dashboard at most once; when the fetch or the extraction   *)
(* fails, every cache file is as before the call, and the next call with   *)
(* the same arguments, whenever it is made, requests the dashboard again.  *)
C24_NoRetryNoWriteOnFailure ==
    [][ last'.op \in Calls
        => /\ Cardinality({ i \in 1..Len(last'.events) :
                              last'.events[i] = "dashboard_fetch" }) <= 1
           /\ FetchFailed(last')
                 => /\ files' = files
                    /\ ~InSeq("cache_write", last'.events)
                    /\ \A t \in {now, now + 1, now + MaxAge}, page \in Pages :
                          InSeq("dashboard_fetch",
                                load_or_fetch_builds(files', last'.job_name,
                                                     last'.use_cache, page, t).events) ]_vars

\* an extraction failed while the job had an expired entry: the entry is
\* still there, untouched
C24_Witness ==
    /\ last.op \in Calls
    /\ last.use_cache
    /\ last.page = Page("ok", "bad_json", <<>>)
    /\ last.exc = "SystemExit"
    /\ FileOf(files, last.job_name).exists
    /\ FileOf(files, last.job_name).kind = "entry"
    /\ FileOf(files, last.job_name).builds = BuildsA
    /\ now - FileOf(files, last.job_name).mtime >= MaxAge

(* C25: builds that a cache-enabled call or load_cached_job_data takes     *)
(* from the cache are those of an entry that save_job_data_to_cache wrote  *)
(* less than the maximum age (1 hour) before the read.                      *)
C25_StalenessIsBounded ==
    [][ \/ last'.op \in Calls /\ last'.hit
        \/ last'.op = "load" /\ ~last'.ret.none
        => LET f == FileOf(files, last'.job_name)
               builds == IF last'.op = "load" THEN last'.ret.v ELSE last'.builds
           IN  /\ f.exists
               /\ f.kind = "entry"
               /\ builds = f.builds
               /\ f.cached_at = f.mtime
               /\ 0 <= now - f.cached_at
               /\ now - f.cached_at < MaxAge ]_vars

\* a call took BuildsA from an entry written 59 minutes earlier
C25_Witness ==
    /\ last.op \in Calls
    /\ last.hit
    /\ last.builds = BuildsA
    /\ now - FileOf(files, last.job_name).cached_at = 59 * 60

(* C28: for the same job, cache, dashboard and Spyglass responses, window  *)
(* and clock, get_latest_failed_job returns None exactly when the summary  *)
(* of count_failed_jobs_in_window has no latest_failed, and otherwise both *)
(* describe the same build with the same fields.                            *)
C28_LatestAgreesWithCount ==
    [][ last'.op = "count"
        => LET g == get_latest_failed_job(files, last'.job_name, last'.hours_back,
                                          last'.use_cache, last'.page, last'.spy,
                                          now, Readings(now))
               lf == last'.ret.latest_failed
           IN  /\ g.exc = last'.exc
               /\ g.ret.none <=> lf.none
               /\ ~lf.none
                     => /\ g.ret.v.build_id = lf.v.build_id
                        /\ g.ret.v.started = lf.v.started
                        /\ g.ret.v.duration = lf.v.duration
                        /\ g.ret.v.spyglass_url = lf.v.spyglass_url
                        /\ g.ret.v.artifacts_url = lf.v.artifacts_url
                        /\ g.ret.v.pr_numbers = lf.v.pr_numbers
                        /\ g.ret.v.result = lf.v.result
                        /\ g.events = last'.events
                        /\ g.fs = files' ]_vars

\* a summary with two failures whose latest failure has a resolved
\* artifacts URL
C28_Witness ==
    /\ last.op = "count"
    /\ last.exc = "none"
    /\ last.ret.total_failures = 2
    /\ last.builds = BuildsA
    /\ last.ret.latest_failed.v.artifacts_url = ARTIFACTS_HREF

(* C27: in refresh mode the job's cache file is removed before the job is  *)
(* fetched, so the dashboard is requested even when a valid entry existed; *)
(* after a fetch and extraction that succeeded the job's entry holds the   *)
(* builds of the page, written at the time of the refresh; after a failed  *)
(* one the job has no cache file.                                           *)
C27_RefreshClearsThenFetches ==
    [][ last'.op = "refresh"
        => /\ Len(last'.events) >= 3
           /\ SubSeq(last'.events, 1, 3)
                 = <<"cache_clear", "cache_read", "dashboard_fetch">>
           /\ ~last'.hit
           /\ last'.page.body = "json"
                 => /\ last'.exc = "none"
                    /\ FileOf(files', last'.job_name)
                          = EntryOf(last'.job_name, last'.page.builds, now)
           /\ last'.page \in FailedPages
                 => /\ last'.exc = "SystemExit"
                    /\ ~FileOf(files', last'.job_name).exists ]_vars

\* a refresh made after time had passed stored the page's BuildsA
C27_Witness ==
    /\ last.op = "refresh"
    /\ last.exc = "none"
    /\ last.page.builds = BuildsA
    /\ last.builds = BuildsA
    /\ FileOf(files, last.job_name) = EntryOf(last.job_name, BuildsA, now)
    /\ now > 0

\* a refresh failed: the job has no cache file
C27_WitnessFailed ==
    /\ last.op = "refresh"
    /\ last.exc = "SystemExit"
    /\ ~FileOf(files, last.job_name).exists

----------------------------------------------------------------------------
(* The window loop with one clock reading per record (SpecFilter) *)

\* the longest list of failed jobs
MaxFailures == 3

\* start times around the one-hour cutoff of the clock readings 0, 1 and 2
FilterStarts ==
    { Aware(t) : t \in {-3601, -3600, -3599} }
    \cup { NoTime("absent"), NoTime("garbage"), Naive(-3600) }

FailedJobLists ==
    UNION { [1..n -> { Build("f", "FAILURE", s, "", <<>>) : s \in FilterStarts }] :
              n \in 0..MaxFailures }

\* the clock is read once per record and never moves backwards
ClockReadings ==
    { clk \in [1..MaxFailures -> {0, 1, 2}] :
        \A i \in 1..(MaxFailures - 1) : clk[i] <= clk[i + 1] }

InitFilter ==
    /\ now = 0
    /\ files = [p \in CacheFileNames |-> NoFile]
    /\ last = NoCall
    /\ mx = NoCall
    /\ gcs = NoCall
    /\ rep = NoCall /\ mcp = NoCall /\ wr = NoCall
    /\ tw \in { [op |-> "filter", failed_jobs |-> f, hours_back |-> 1, clk |-> clk] :
                  f \in FailedJobLists, clk \in ClockReadings }

\* lines 307-312: the loop over failed_jobs
FilterWindow ==
    LET w == filter_window(tw.failed_jobs, tw.hours_back, tw.clk, 1)
    IN  /\ tw.op = "filter"
        /\ tw' = [op |-> "filtered", failed_jobs |-> tw.failed_jobs,
                  hours_back |-> tw.hours_back, clk |-> tw.clk, exc |-> w.exc,
                  failed_jobs_in_window |-> IF w.exc = "none" THEN w.v ELSE <<>>]
        /\ UNCHANGED <<now, files, last, mx, gcs, rep, mcp, wr>>

NextFilter == FilterWindow

SpecFilter == InitFilter /\ [][NextFilter]_vars

\* a start time that fromisoformat parses
Parseable(started) == started.kind \in {"aware", "naive"}

\* the start times that can be parsed are in descending order
ReverseChronological(failed_jobs) ==
    \A i, k \in 1..Len(failed_jobs) :
        (/\ i < k
         /\ Parseable(failed_jobs[i].Started)
         /\ Parseable(failed_jobs[k].Started))
        => failed_jobs[i].Started.t >= failed_jobs[k].Started.t

\* no failure lacks a start time or has one that cannot be parsed
AllStartsParseable(failed_jobs) ==
    \A i \in 1..Len(failed_jobs) : Parseable(failed_jobs[i].Started)

\* s is what is left of seq after dropping its last elements
IsPrefix(s, seq) == Len(s) <= Len(seq) /\ s = SubSeq(seq, 1, Len(s))

(* C26 as stated: for a list of failures in reverse-chronological order    *)
(* and clock readings that never decrease, the in-window failures are a    *)
(* prefix of the list of failures.                                          *)
C26_InWindowIsPrefix ==
    (tw.op = "filtered" /\ ReverseChronological(tw.failed_jobs))
    => IsPrefix(tw.failed_jobs_in_window, tw.failed_jobs)

(* C26, amended: the same for a list in which no failure lacks a start     *)
(* time or has one that cannot be parsed.                                   *)
C26_InWindowIsPrefixOfTimedList ==
    (/\ tw.op = "filtered"
     /\ ReverseChronological(tw.failed_jobs)
     /\ AllStartsParseable(tw.failed_jobs))
    => IsPrefix(tw.failed_jobs_in_window, tw.failed_jobs)

\* the clock moved on during the loop: the second of two failures that
\* started at the same instant is out of the window, the first is in
C26_Witness ==
    /\ tw.op = "filtered"
    /\ Len(tw.failed_jobs) = 3
    /\ \A i \in 1..3 : tw.failed_jobs[i].Started = Aware(-3600)
    /\ tw.clk = <<0, 1, 1>>
    /\ Len(tw.failed_jobs_in_window) = 1

----------------------------------------------------------------------------
(* The pull-request report: get_pr_report_data (SpecReport)                *)
(* Strings that are searched are sequences of characters; a key that a     *)
(* JSON object lacks is None in the record that models it.                 *)

\* str.lower() and re.IGNORECASE over the characters of the model
chr_lower(ch) == IF ch = "F" THEN "f" ELSE ch
str_lower(s) == [i \in 1..Len(s) |-> chr_lower(s[i])]

\* re.compile succeeds: the model's only malformed pattern has an unclosed "("
re_valid(pattern) == \A i \in 1..Len(pattern) : pattern[i] # "("

\* re.search(pattern, s, re.IGNORECASE) for a valid pattern of literal
\* characters and ".", which matches any character
re_search_ignorecase(pattern, s) ==
    \E i \in 1..(Len(s) - Len(pattern) + 1) :
        \A j \in 1..Len(pattern) :
            pattern[j] = "." \/ chr_lower(pattern[j]) = chr_lower(s[i + j - 1])

matches_subject_filter(title, subject_pattern) ==
    IF re_valid(subject_pattern)
    THEN re_search_ignorecase(subject_pattern, title)
    ELSE str_contains(str_lower(title), str_lower(subject_pattern))

\* a status check of statusCheckRollup: a StatusContext has state, context
\* and targetUrl; a CheckRun has none of the three keys
StatusCheck(state, context, targetUrl) ==
    [state |-> state, context |-> context, targetUrl |-> targetUrl]

CheckE2eFailed == StatusCheck(Some("FAILURE"), Some("e2e"), Some("/e2e"))
CheckBareFailed == StatusCheck(Some("FAILURE"), None, None)
CheckUnitPending == StatusCheck(Some("PENDING"), Some("unit"), Some("/unit"))
CheckLintSuccess == StatusCheck(Some("SUCCESS"), Some("lint"), Some("/lint"))
CheckLintError == StatusCheck(Some("ERROR"), Some("lint"), Some("/lint"))
CheckRun == StatusCheck(None, None, None)

\* the values of a PR's statusCheckRollup: null, or a list of status checks
StatusCheckRollups ==
    { None, Some(<<>>), Some(<<CheckLintSuccess>>), Some(<<CheckRun, CheckLintError>>),
      Some(<<CheckE2eFailed>>), Some(<<CheckUnitPending, CheckLintSuccess>>),
      Some(<<CheckUnitPending, CheckBareFailed, CheckE2eFailed>>) }

\* bool(x) of an Optional list or string: None and the empty value are falsy
truthy(x) == ~x.none /\ x.v # <<>>
truthy_str(x) == ~x.none /\ x.v # ""

\* dict.get(key, default) for a key the record models as an Optional
dict_get(opt, default) == IF opt.none THEN default ELSE opt.v

\* mutant: only a failed check counts
has_failed_tests_only(status_checks) ==
    /\ truthy(status_checks)
    /\ \E i \in 1..Len(status_checks.v) :
           status_checks.v[i].state = Some("FAILURE")

has_failed_or_running_tests(status_checks) ==
    /\ truthy(status_checks)
    /\ \E i \in 1..Len(status_checks.v) :
           status_checks.v[i].state \in {Some("FAILURE"), Some("PENDING")}

RECURSIVE checks_in_state(_, _)
checks_in_state(status_checks, state) ==
    IF status_checks = <<>>
    THEN <<>>
    ELSE (IF Head(status_checks).state = Some(state)
          THEN <<Head(status_checks)>>
          ELSE <<>>) \o checks_in_state(Tail(status_checks), state)

get_failed_checks(status_checks) ==
    LET failed == checks_in_state(status_checks, "FAILURE")
    IN  [i \in 1..Len(failed) |-> dict_get(failed[i].context, "Unknown")]

get_running_checks(status_checks) ==
    LET running == checks_in_state(status_checks, "PENDING")
    IN  [i \in 1..Len(running) |-> dict_get(running[i].context, "Unknown")]

\* the loop that builds failed_check_details (state "FAILURE") and
\* running_check_details (state "PENDING")
check_details(status_checks, state) ==
    LET found == checks_in_state(status_checks, state)
    IN  [i \in 1..Len(found) |->
            [name |-> dict_get(found[i].context, "Unknown"),
             url |-> dict_get(found[i].targetUrl, "")]]

\* pr["author"]["login"] if pr.get("author") else "Unknown"
pr_author(pr) == dict_get(pr.author, "Unknown")

\* the logins, titles and subject patterns of the model
Logins == {"alice", "Alice"}
Titles == { <<"F", "x">>, <<"(", "f">>, <<"d", "c">> }
SubjectPatterns == { <<"f", ".">>, <<"(", "f">>, <<"d", "c">> }
AuthorFilters == {None, Some(""), Some("alice"), Some("bob")}
SubjectFilters == {None} \cup { Some(p) : p \in SubjectPatterns }

\* the repository's open pull requests, at most MaxPRs of them, numbered
\* in list order
MaxPRs == 1
PullRequest(author, title, rollup) ==
    [author |-> author, title |-> title, headRefName |-> "branch",
     statusCheckRollup |-> rollup]
PullRequests ==
    { PullRequest(a, t, s) : a \in {None} \cup { Some(l) : l \in Logins },
                             t \in Titles, s \in StatusCheckRollups }
Numbered(open_prs) ==
    [i \in 1..Len(open_prs) |->
        [number |-> i, title |-> open_prs[i].title,
         headRefName |-> open_prs[i].headRefName, author |-> open_prs[i].author,
         statusCheckRollup |-> open_prs[i].statusCheckRollup]]
OpenPRLists ==
    UNION { { Numbered(l) : l \in [1..n -> PullRequests] } : n \in 0..MaxPRs }

\* gh pr list --state open [--author a]: GitHub compares logins without
\* regard to case
login_lower(login) == IF login = "Alice" THEN "alice" ELSE login

RECURSIVE gh_pr_list(_, _)
gh_pr_list(open_prs, author) ==
    IF open_prs = <<>>
    THEN <<>>
    ELSE (IF \/ author.none
             \/ /\ ~Head(open_prs).author.none
                /\ login_lower(Head(open_prs).author.v) = login_lower(author.v)
          THEN <<Head(open_prs)>>
          ELSE <<>>) \o gh_pr_list(Tail(open_prs), author)

\* run_gh_command: gh's answer parsed, or sys.exit(1) when gh fails or its
\* output is not JSON
run_gh_command(open_prs, author, gh_ok) ==
    IF gh_ok THEN Returned(gh_pr_list(open_prs, author)) ELSE Raised("SystemExit")

\* the filter of get_pr_report_data's loop
should_include(pr, author_filter, subject_filter) ==
    IF truthy_str(author_filter) \/ truthy(subject_filter)
    THEN \/ truthy_str(author_filter) /\ pr_author(pr) = author_filter.v
         \/ /\ truthy(subject_filter)
            /\ matches_subject_filter(pr.title, subject_filter.v)
    ELSE TRUE

\* the entry appended to prs_with_issues
pr_with_issues(pr) ==
    LET status_checks == pr.statusCheckRollup.v
    IN  [number |-> pr.number,
         title |-> pr.title,
         branch |-> pr.headRefName,
         author |-> pr_author(pr),
         failed_checks |-> get_failed_checks(status_checks),
         running_checks |-> get_running_checks(status_checks),
         failed_check_details |-> check_details(status_checks, "FAILURE"),
         running_check_details |-> check_details(status_checks, "PENDING")]

RECURSIVE prs_with_issues(_, _, _)
prs_with_issues(prs, author_filter, subject_filter) ==
    IF prs = <<>>
    THEN <<>>
    ELSE (IF /\ should_include(Head(prs), author_filter, subject_filter)
             /\ has_failed_or_running_tests(Head(prs).statusCheckRollup)
          THEN <<pr_with_issues(Head(prs))>>
          ELSE <<>>) \o prs_with_issues(Tail(prs), author_filter, subject_filter)

get_pr_report_data(author_filter, subject_filter, open_prs, gh_ok) ==
    LET gh_author == IF truthy_str(author_filter) /\ ~truthy(subject_filter)
                     THEN author_filter
                     ELSE None
        prs == run_gh_command(open_prs, gh_author, gh_ok)
    IN  IF prs.exc # "none"
        THEN prs
        ELSE Returned(prs_with_issues(prs.v, author_filter, subject_filter))

InitReport ==
    /\ now = 0
    /\ files = [p \in CacheFileNames |-> NoFile]
    /\ last = NoCall
    /\ tw = NoCall
    /\ mx = NoCall
    /\ gcs = NoCall
    /\ mcp = NoCall /\ wr = NoCall
    /\ rep \in { [op |-> "report", author_filter |-> a, subject_filter |-> s,
                  open_prs |-> l, gh_ok |-> ok] :
                  a \in AuthorFilters, s \in SubjectFilters, l \in OpenPRLists,
                  ok \in BOOLEAN }

GetPrReportData ==
    /\ rep.op = "report"
    /\ LET r == get_pr_report_data(rep.author_filter, rep.subject_filter,
                                   rep.open_prs, rep.gh_ok)
       IN  rep' = [op |-> "reported", author_filter |-> rep.author_filter,
                   subject_filter |-> rep.subject_filter,
                   open_prs |-> rep.open_prs, gh_ok |-> rep.gh_ok,
                   exc |-> r.exc,
                   ret |-> IF r.exc = "none" THEN r.v ELSE <<>>]
    /\ UNCHANGED <<now, files, last, tw, mx, gcs, mcp, wr>>

NextReport == GetPrReportData

SpecReport == InitReport /\ [][NextReport]_vars

----------------------------------------------------------------------------
(* Claim about the pull-request report (SpecReport) *)

\* a filter is given when it is neither None nor the empty string
AuthorGiven(author_filter) == ~author_filter.none /\ author_filter.v # ""
SubjectGiven(subject_filter) == ~subject_filter.none /\ subject_filter.v # <<>>

\* the pull request passes the filter: no filter is given, or its author is
\* the author filter, or its title matches the subject filter
PassesFilter(pr, author_filter, subject_filter) ==
    \/ ~AuthorGiven(author_filter) /\ ~SubjectGiven(subject_filter)
    \/ /\ AuthorGiven(author_filter)
       /\ ~pr.author.none
       /\ pr.author.v = author_filter.v
    \/ /\ SubjectGiven(subject_filter)
       /\ matches_subject_filter(pr.title, subject_filter.v)

\* one of the pull request's status checks has state FAILURE or PENDING
HasFailedOrPendingCheck(pr) ==
    /\ ~pr.statusCheckRollup.none
    /\ \E i \in 1..Len(pr.statusCheckRollup.v) :
           LET state == pr.statusCheckRollup.v[i].state
           IN  ~state.none /\ state.v \in {"FAILURE", "PENDING"}

Reported(number) == \E k \in 1..Len(rep.ret) : rep.ret[k].number = number

NamesOf(details) == [i \in 1..Len(details) |-> details[i].name]

C29_WitnessAuthorOnly ==
    /\ rep.op = "reported"
    /\ rep.exc = "none"
    /\ rep.author_filter = Some("alice")
    /\ rep.subject_filter = None
    /\ Len(rep.open_prs) = 1
    /\ rep.open_prs[1].author = Some("Alice")
    /\ rep.open_prs[1].statusCheckRollup = Some(<<CheckUnitPending, CheckLintSuccess>>)
    /\ rep.ret = <<>>

----------------------------------------------------------------------------
(* The MCP tool dispatchers of mcp_server.py and working_mcp_server.py     *)
(* (SpecMcp).  Of a tool's arguments the model keeps stack_name and        *)
(* extra_args; the other options are absent.  A JSON string is a list of   *)
(* its words; a JSON value that is not a string is NotStr.                 *)

Str(words) == [str |-> TRUE, words |-> words]
NotStr == [str |-> FALSE]

McpServers == {"mcp_server", "working_mcp_server"}

\* the tool names that handle_call_tool of each server compares with
McpTools(server) ==
    IF server = "mcp_server"
    THEN {"create_vm", "provision_vm", "stop_vm", "start_vm", "destroy_vm",
          "cleanup_old_vms", "get_kube_env"}
    ELSE {"create_vm", "provision_vm", "stop_vm", "start_vm", "get_vm_status"}

\* the names a client may ask for: restart_vm is a tool of neither server
RequestNames == McpTools("mcp_server") \cup McpTools("working_mcp_server") \cup {"restart_vm"}

ToolArguments(stack_name, extra_args) ==
    [stack_name |-> stack_name, extra_args |-> extra_args]
RequestArguments ==
    { ToolArguments(s, e) : s \in {None, Some(Str(<<"stack">>)), Some(NotStr)},
                            e \in {None, Some(Str(<<"-v", "-x">>)), Some(NotStr)} }

\* what the file system and run.sh do when the script is asked for
RunScriptStates == {"missing", "not_executable", "runs"}
ReturnCodes == {0, 1, 2}
Outputs == {"utf8", "not_utf8"}

\* a CallToolResult, with what happened to the script on the way
CallToolResult(isError, text, started) ==
    [exc |-> "none", isError |-> isError, text |-> text, started |-> started]
\* an exception raised before or after the script was started
RaisedBy(e, started) == [exc |-> e, started |-> started]

\* the mode words that a tool's handler puts on the command line
mode_words(name) ==
    CASE name = "create_vm" -> <<"create", "upstream">>
      [] name = "provision_vm" -> <<"provision", "upstream">>
      [] name = "stop_vm" -> <<"stop">>
      [] name = "start_vm" -> <<"start">>
      [] name = "destroy_vm" -> <<"destroy">>
      [] name = "cleanup_old_vms" -> <<"cleanup">>
      [] OTHER -> <<"env">>

\* cmd_args as _create_vm ... _get_kube_env / _get_vm_status build them:
\* args.get("extra_args").split() raises AttributeError for a value that
\* is not a string; working_mcp_server.py does not read extra_args
tool_cmd_args(server, name, args) ==
    LET stack == IF name \in {"get_kube_env", "get_vm_status"} \/ args.stack_name.none
                 THEN <<>>
                 ELSE <<Str(<<"-s">>), args.stack_name.v>>
        mode == [i \in 1..Len(mode_words(name)) |-> Str(<<mode_words(name)[i]>>)]
        reads_extra == /\ server = "mcp_server"
                       /\ name # "get_kube_env"
                       /\ ~args.extra_args.none
    IN  IF reads_extra /\ ~args.extra_args.v.str
        THEN Raised("AttributeError")
        ELSE Returned(stack \o mode \o
                      (IF reads_extra
                       THEN [i \in 1..Len(args.extra_args.v.words) |->
                                Str(<<args.extra_args.v.words[i]>>)]
                       ELSE <<>>))

\* _run_script: the log line joins the command's words before the try
\* block; inside it, every exception of create_subprocess_exec,
\* communicate and decode is raised again as Exception
run_script(cmd_args, run_sh, returncode, output) ==
    IF run_sh = "missing"
    THEN RaisedBy("FileNotFoundError", FALSE)
    ELSE IF \E i \in 1..Len(cmd_args) : ~cmd_args[i].str
    THEN RaisedBy("TypeError", FALSE)
    ELSE IF run_sh = "not_executable"
    THEN RaisedBy("Exception", FALSE)
    ELSE IF output = "not_utf8"
    THEN RaisedBy("Exception", TRUE)
    ELSE IF returncode = 0
    THEN CallToolResult(FALSE, "completed", TRUE)
    ELSE CallToolResult(TRUE, "failed", TRUE)

\* handle_call_tool: every Exception of the tool's handler, and the
\* ValueError of an unknown name, becomes a result with isError
handle_call_tool(server, name, args, run_sh, returncode, output) ==
    LET cmd_args == tool_cmd_args(server, name, args)
        r == IF name \notin McpTools(server)
             THEN RaisedBy("ValueError", FALSE)
             ELSE IF cmd_args.exc # "none"
             THEN RaisedBy(cmd_args.exc, FALSE)
             ELSE run_script(cmd_args.v, run_sh, returncode, output)
    IN  IF r.exc # "none"
        THEN CallToolResult(TRUE, "Error", r.started)
        ELSE r

\* the server takes one request at a time
HandleCallTool ==
    \E server \in McpServers, name \in RequestNames, args \in RequestArguments,
       run_sh \in RunScriptStates, returncode \in ReturnCodes, output \in Outputs :
        /\ mcp.op = "none"
        /\ LET r == handle_call_tool(server, name, args, run_sh, returncode, output)
           IN  mcp' = [op |-> "call_tool", server |-> server, name |-> name,
                       arguments |-> args, run_sh |-> run_sh,
                       returncode |-> returncode, output |-> output,
                       exc |-> r.exc,
                       isError |-> IF r.exc = "none" THEN r.isError ELSE FALSE,
                       started |-> r.started]
        /\ UNCHANGED <<now, files, last, tw, mx, gcs, rep, wr>>

\* the answer is sent and the server waits for the next request
SendResult ==
    /\ mcp.op = "call_tool"
    /\ mcp' = NoCall
    /\ UNCHANGED <<now, files, last, tw, mx, gcs, rep, wr>>

NextMcp == HandleCallTool \/ SendResult

SpecMcp == Init /\ [][NextMcp]_vars

----------------------------------------------------------------------------
(* Claim about the MCP tool dispatchers (SpecMcp) *)

UnknownTool == mcp.name \notin McpTools(mcp.server)

\* run.sh was started and exited with the return code rc
RanAndExitedWith(rc) == mcp.started /\ mcp.returncode = rc

(* C30: a tool call is answered with a result and no exception escapes;    *)
(* the result has isError when the tool name is unknown, when run.sh is    *)
(* missing or cannot be executed, or when the script exits with a return   *)
(* code other than 0; it has no isError exactly when the script ran and    *)
(* exited with return code 0; an unknown tool name never starts the        *)
(* script.                                                                 *)
C30_DispatcherAnswersEveryCall ==
    mcp.op = "call_tool"
    => /\ mcp.exc = "none"
       /\ UnknownTool => (mcp.isError /\ ~mcp.started)
       /\ mcp.run_sh \in {"missing", "not_executable"} => mcp.isError
       /\ (\E rc \in ReturnCodes \ {0} : RanAndExitedWith(rc)) => mcp.isError
       /\ (~mcp.isError) <=> RanAndExitedWith(0)

(* What holds of the code: the same, for a script whose output is valid    *)
(* UTF-8.                                                                  *)
C30_DecodableRunIsAnswered ==
    (mcp.op = "call_tool" /\ mcp.output = "utf8")
    => /\ mcp.exc = "none"
       /\ UnknownTool => (mcp.isError /\ ~mcp.started)
       /\ mcp.run_sh \in {"missing", "not_executable"} => mcp.isError
       /\ (\E rc \in ReturnCodes \ {0} : RanAndExitedWith(rc)) => mcp.isError
       /\ (~mcp.isError) <=> RanAndExitedWith(0)

\* run.sh ran and exited with 0, its output was not valid UTF-8, and the
\* result has isError
C30_SuccessfulRunAnsweredAsError ==
    /\ mcp.op = "call_tool"
    /\ ~UnknownTool
    /\ RanAndExitedWith(0)
    /\ mcp.output = "not_utf8"
    /\ mcp.isError

----------------------------------------------------------------------------
(* Two processes that save and one that loads the same job's cache entry   *)
(* at the same time (SpecRace).  The cache file is a sequence of blocks of *)
(* text: json.dump's output is the opening of the object with job_name and *)
(* cached_at, one block for each build, and the closing.  open(.., 'w')    *)
(* empties the file when it is opened; each process then writes at its own *)
(* file position, a buffer at a time, the last buffer when the file is     *)
(* closed.  All of it happens within the entry's hour.                     *)

Puts == {1, 2}
RaceJob == <<"k">>
RaceBuildLists == { <<>>, <<BuildsD[1]>>, BuildsD, BuildsB }

\* json.dump(cache_data, f, indent=2); the put of process i reads the clock
\* at instant i
json_dump(job_name, cached_at, builds_data) ==
    <<[t |-> "open", job_name |-> job_name, cached_at |-> cached_at]>>
    \o [i \in 1..Len(builds_data) |-> [t |-> "build", build |-> builds_data[i]]]
    \o <<[t |-> "close"]>>

\* the block of a position that was never written, below one that was
ZeroBlock == [t |-> "zero"]

\* write(2) of blocks at the position off of a file that is not open for
\* appending: the blocks replace what is there, the rest of the file stays
pwrite(content, off, blocks) ==
    LET end == off + Len(blocks)
        len == IF Len(content) > end THEN Len(content) ELSE end
    IN  [p \in 1..len |->
            IF p > off /\ p <= end THEN blocks[p - off]
            ELSE IF p <= Len(content) THEN content[p]
            ELSE ZeroBlock]

\* json.load(f) followed by data.get('builds', []): the text is an object
\* when it is the opening, builds and the closing, and nothing else
json_load_builds(content) ==
    IF /\ Len(content) >= 2
       /\ content[1].t = "open"
       /\ content[Len(content)].t = "close"
       /\ \A p \in 2..(Len(content) - 1) : content[p].t = "build"
    THEN Returned(Some([p \in 1..(Len(content) - 2) |-> content[p + 1].build]))
    ELSE Raised("JSONDecodeError")

\* load_cached_job_data on the file as it is at one instant
race_load_cached_job_data(exists, content) ==
    IF ~exists
    THEN None
    ELSE LET data == json_load_builds(content)
         IN  IF data.exc # "none" THEN None ELSE data.v

\* a process that has not called save_job_data_to_cache yet
PutIdle(builds_data) == [pc |-> "idle", builds_data |-> builds_data, off |-> 0]

InitRace ==
    /\ now = 0
    /\ files = [p \in CacheFileNames |-> NoFile]
    /\ last = NoCall
    /\ tw = NoCall
    /\ mx = NoCall
    /\ gcs = NoCall
    /\ rep = NoCall /\ mcp = NoCall
    /\ wr \in { [op |-> "race",
                 exists |-> old # None,
                 content |-> IF old = None THEN <<>> ELSE json_dump(RaceJob, 0, old.v),
                 old |-> old,
                 put |-> [i \in Puts |-> PutIdle(IF i = 1 THEN b1 ELSE b2)],
                 get |-> NotCalled] :
                 old \in {None} \cup { Some(b) : b \in RaceBuildLists },
                 b1 \in RaceBuildLists, b2 \in RaceBuildLists }

\* with open(cache_file, 'w') as f: the file is created or emptied
SaveOpen(i) ==
    /\ wr.put[i].pc = "idle"
    /\ wr' = [wr EXCEPT !.exists = TRUE, !.content = <<>>,
                        !.put[i].pc = "open"]
    /\ UNCHANGED <<now, files, last, tw, mx, gcs, rep, mcp>>

\* the buffer is written when it is full and when the file is closed: n
\* more blocks of the text go to the file
SaveWrite(i) ==
    /\ wr.put[i].pc = "open"
    /\ LET text == json_dump(RaceJob, i, wr.put[i].builds_data)
           off == wr.put[i].off
       IN  \E n \in 1..(Len(text) - off) :
               wr' = [wr EXCEPT
                        !.content = pwrite(@, off, SubSeq(text, off + 1, off + n)),
                        !.put[i].off = off + n,
                        !.put[i].pc = IF off + n = Len(text) THEN "closed" ELSE "open"]
    /\ UNCHANGED <<now, files, last, tw, mx, gcs, rep, mcp>>

\* load_cached_job_data while the puts run; during is the set of puts that
\* have the file open, started the set of those that have opened it
RaceLoad ==
    /\ ~wr.get.done
    /\ wr' = [wr EXCEPT !.get =
                [done |-> TRUE,
                 ret |-> race_load_cached_job_data(wr.exists, wr.content),
                 during |-> { i \in Puts : wr.put[i].pc = "open" },
                 started |-> { i \in Puts : wr.put[i].pc # "idle" }]]
    /\ UNCHANGED <<now, files, last, tw, mx, gcs, rep, mcp>>

NextRace ==
    \/ \E i \in Puts : SaveOpen(i)
    \/ \E i \in Puts : SaveWrite(i)
    \/ RaceLoad

SpecRace == InitRace /\ [][NextRace]_vars

----------------------------------------------------------------------------
(* Claim about concurrent puts and gets (SpecRace) *)

BothPutsFinished == \A i \in Puts : wr.put[i].pc = "closed"

\* the file is what the put of process i wrote, all of it and nothing else
CompleteEntryOf(i) == wr.content = json_dump(RaceJob, i, wr.put[i].builds_data)

\* the build lists that were stored or put as a whole
CompleteLists == { wr.put[i].builds_data : i \in Puts }
                 \cup (IF wr.old = None THEN {} ELSE {wr.old.v})

(* C23: when two puts for the same job name run concurrently, the stored   *)
(* entry after both have finished is the complete entry of one of them and *)
(* never a mixture; a get that runs concurrently with a put returns        *)
(* nothing or one complete build list.                                     *)
C23_LastWriteWins ==
    wr.op = "race"
    => /\ BothPutsFinished => \E i \in Puts : CompleteEntryOf(i)
       /\ (wr.get.done /\ wr.get.during # {})
          => (wr.get.ret = None \/ wr.get.ret.v \in CompleteLists)

(* What holds of the code: a get that runs while one put has the file open *)
(* and the other put has not started returns nothing or one complete build *)
(* list; a put that runs alone stores its complete entry.                  *)
C23_GetDuringOnePut ==
    wr.op = "race"
    => /\ (wr.get.done /\ Cardinality(wr.get.started) = 1 /\ wr.get.during # {})
          => (wr.get.ret = None \/ wr.get.ret.v \in CompleteLists)
       /\ \A i \in Puts :
              (wr.put[i].pc = "closed" /\ \A j \in Puts \ {i} : wr.put[j].pc = "idle")
              => CompleteEntryOf(i)

\* both puts opened the file before either wrote; the longer text was
\* written first and the shorter one over its beginning
C23_MixtureStored ==
    /\ wr.op = "race"
    /\ BothPutsFinished
    /\ wr.put[1].builds_data = BuildsD
    /\ wr.put[2].builds_data = <<>>
    /\ wr.content = json_dump(RaceJob, 2, <<>>)
                    \o <<[t |-> "build", build |-> BuildsD[2]], [t |-> "close"]>>

====
